---- MODULE Spec2Model ----
(***************************************************************************)
(* dbstash: the backup orchestration core.                                 *)
(*                                                                         *)
(*   Spec      the process (cmd/dbstash/main.go run), the cron Scheduler   *)
(*             with its overlap guard, and RunOnce, one goroutine per      *)
(*             trigger firing plus the BACKUP_ON_START goroutine.          *)
(*   RunSpec   the same process with runs one at a time, over every        *)
(*             housekeeping setting.                                       *)
(*   PipeSpec  one call of Pipeline.Execute (stream, directory or tar)     *)
(*             with its external processes, pipe and run context.          *)
(***************************************************************************)
EXTENDS Integers, Sequences, FiniteSets, TLC

\* Number of cron trigger firings explored (one goroutine each).
MaxFirings == 2

\* Number of chunks of output a producer (dump tool, tar) still has to write.
MaxChunks == 1

\* Longest listing given to selectDeletions.
MaxEntries == 3

\* Oldest modification time of an entry, in days before now; also the
\* largest RETENTION_MAX_DAYS.
MaxAge == 2

\* Longest remote listing retention.Run works on.
MaxRemote == 2

\* Width of the integers standing for int64 sizes.
SizeBits == 3

(***************************************************************************)
(* Settings (config.Config), immutable after Prepare.  Only the fields    *)
(* the orchestration reads; a string field is "" or one set value, the    *)
(* duration BackupTimeout is 0 (no limit) or 1, Retention stands for      *)
(* RetentionMaxFiles > 0 || RetentionMaxDays > 0.                          *)
(***************************************************************************)
Config ==
    [ DryRun : BOOLEAN, ScheduleOnce : BOOLEAN,
      BackupLock : BOOLEAN, BackupOnStart : BOOLEAN,
      BackupTimeout : {0, 1},
      HookPreBackup : {"", "cmd"}, HookPostBackup : {"", "cmd"},
      Retention : BOOLEAN,
      NotifyWebhookURL : {"", "url"},
      NotifyOn : {"always", "failure", "success"} ]

\* The goroutines: main, the BACKUP_ON_START goroutine, one per cron firing.
MainProc == <<"main", 0>>
OnStartProc == <<"onstart", 0>>
CronProcs == {<<"cron", i>> : i \in 1..MaxFirings}
Procs == {MainProc, OnStartProc} \cup CronProcs

VARIABLES
    cfg,         \* the Config of the process
    pc,          \* where each goroutine is
    running,     \* Scheduler.running, the overlap guard
    cronState,   \* "none" | "started" | "stopped": Scheduler.cron
    fired,       \* number of trigger firings so far
    tracker,     \* health.Tracker: [present, lastBackup, lastStatus]
    status,      \* RunOnce local, per goroutine
    backupErr,   \* RunOnce local: "nil" or the error
    remotePath,  \* RunOnce local
    fileSize,    \* RunOnce local
    ctxDone,     \* the per-run context is cancelled (timeout expired)
    calls,       \* history: the collaborator calls RunOnce made, in order
    inFlight,    \* history: a runWithLock run was executing when p fired
    exitCode,    \* process exit status, -1 while running
    stopResult,  \* Scheduler.Stop: "none" | "drained" | "timeout" (select case)
    muWriter,    \* Tracker.mu: the goroutine holding the write lock, or NoHolder
    muReaders,   \* Tracker.mu: the goroutines holding the read lock
    clock,       \* time.Now() as Update reads it: a counter of readings
    updates,     \* history: the (time, status) of each Update call, in order
    rpc,         \* where the /health handler's GetStatus call is
    seen,        \* the (lastBackup, lastStatus) GetStatus has read
    \* One call of Pipeline.Execute:
    pipeCfg,     \* the settings Execute and DumpCommand read
    ppc,         \* where Execute is
    pctx,        \* the context given to Execute is cancelled
    proc,        \* the external processes: dump tool, tar, rclone
    left,        \* chunks the producer has still to write into the pipe
    pw,          \* write end of the io.Pipe: "none" | "open" | "closed"
    pr,          \* read end of the io.Pipe
    tempDir,     \* the staging directory: "none" | "exists" | "removed"
    remoteOps,   \* history: the rclone operations started, in order
    atCancel,    \* history: the processes running when the context was cancelled
    ret,         \* what Execute returned: [path, size, err], err "" before
    sizeQuery,   \* history: the size query made: [made, failed, out]
    waited,      \* history: the processes whose Wait (or Run) has returned
    \* One call of retention.Run or of selectDeletions:
    selListing,  \* history: the listing as it was given (rclone lsjson order)
    selEntries,  \* the entries slice, which selectDeletions sorts in place
    selMaxFiles, \* RETENTION_MAX_FILES
    selMaxDays,  \* RETENTION_MAX_DAYS
    selResult,   \* what selectDeletions returned (toDelete in Run)
    selPc,       \* where the call is
    runIdx,      \* Run: the index in toDelete of the next entry to delete
    runDeleted,  \* Run: the local counter deleted
    runOps,      \* history: the deletes Run attempted: [op, id, path, ok]
    runLists,    \* history: the listRemote calls Run made, TRUE for one that succeeded
    runRet,      \* what Run returned: [deleted, err]
    \* One call of notify.Send:
    sendIn,      \* its arguments: [url, notifyOn, status, done]
    sendPc,      \* where the call is
    sendOut,     \* what it did: [attempted, posted, delivered]
    \* One call of Engine.DumpCommand:
    engCfg,      \* the settings passed
    engMode,     \* the mode passed
    engPc,       \* where the call is
    engOut       \* what it returned: [err, bound, cmd]

schedVars == <<cfg, pc, running, cronState, fired, tracker, status, backupErr,
               remotePath, fileSize, ctxDone, calls, inFlight, exitCode, stopResult,
               muWriter, muReaders, clock, updates, rpc, seen>>

pipeVars == <<pipeCfg, ppc, pctx, proc, left, pw, pr, tempDir, remoteOps,
              atCancel, ret, sizeQuery, waited>>

retVars == <<selListing, selEntries, selMaxFiles, selMaxDays, selResult, selPc,
             runIdx, runDeleted, runOps, runLists, runRet>>

\* The direct calls of single functions.
sendVars == <<sendIn, sendPc, sendOut>>
engVars == <<engCfg, engMode, engPc, engOut>>
callVars == <<sendVars, engVars>>

vars == <<schedVars, pipeVars, retVars, callVars>>

\* The Tracker's mutex and the /health handler.
trackVars == <<muWriter, muReaders, clock, updates>>
readerVars == <<rpc, seen>>

\* What neither the steps of a run outside Tracker.Update nor Stop touch.
offVars == <<callVars, retVars, pipeVars, trackVars, readerVars>>
restVars == <<offVars, stopResult>>

locals == <<status, backupErr, remotePath, fileSize>>

\* pc values inside RunOnce.
RunPCs == {"prehook", "execute", "blocked", "retention", "posthook", "health", "update1",
           "update2", "notify", "return"}

InRunOnce(p) == pc[p] \in RunPCs

NilErr == "nil"
PreHookErr == "pre-backup hook failed"
PipelineErr == "pipeline failed"

\* One collaborator call: the function, whether it returned an error, the
\* status and path it was given (or returned), and whether it reached its
\* external effect (command started, request issued).
Call(fn, err, st, path, ran) ==
    [fn |-> fn, err |-> err, status |-> st, path |-> path, ran |-> ran]

LogCall(p, c) == [calls EXCEPT ![p] = Append(@, c)]

\* The status a freshly created Tracker reports (health.NewTracker).
NewTracker == [present |-> TRUE, lastBackup |-> 0, lastStatus |-> "pending"]
NoTracker == [present |-> FALSE, lastBackup |-> 0, lastStatus |-> "pending"]

\* The tracker argument RunOnce gets: nil in once mode (main.go:396), the
\* process's Tracker for the on-start run and the cron runs.
HasTracker(p) == p # MainProc

\* Nobody holds the Tracker's write lock.
NoHolder == <<"none", 0>>

\* The goroutine serving GET /health.
ReaderProc == <<"health", 0>>

\* Nothing read yet.
NotSeen == [lastBackup |-> -1, lastStatus |-> ""]

\* The housekeeping settings left at their defaults (main.go flags): no
\* hooks, no retention limit, no webhook, NOTIFY_ON=failure.
DefaultHousekeeping(c) ==
    /\ c.HookPreBackup = ""
    /\ c.HookPostBackup = ""
    /\ ~c.Retention
    /\ c.NotifyWebhookURL = ""
    /\ c.NotifyOn = "failure"

\* Runs of one process never overlap by construction: once mode, or cron
\* mode with the lock and without the on-start run.
Serialized(c) ==
    /\ ~c.DryRun
    /\ c.ScheduleOnce \/ (c.BackupLock /\ ~c.BackupOnStart)

\* The external processes of a pipeline and the state of one not started.
ProcNames == {"dump", "tar", "rclone"}
NoProc == [st |-> "none", bound |-> FALSE, stuck |-> FALSE]

\* No size query has been made.
NoQuery == [made |-> FALSE, failed |-> FALSE, out |-> ""]

\* No Execute call is modelled at the level of its processes.
PipeIdle ==
    /\ pipeCfg = [BackupMode |-> "stream", Engine |-> "pg", BackupAllDatabases |-> FALSE,
                  DBURI |-> "", DBHost |-> "h", DBName |-> "n", BackupCompress |-> FALSE]
    /\ ppc = "idle"
    /\ pctx = FALSE
    /\ proc = [n \in ProcNames |-> NoProc]
    /\ left = 0
    /\ pw = "none"
    /\ pr = "none"
    /\ tempDir = "none"
    /\ remoteOps = <<>>
    /\ atCancel = {}
    /\ ret = [path |-> "", size |-> 0, err |-> ""]
    /\ sizeQuery = NoQuery
    /\ waited = {}

\* No retention.Run or selectDeletions call is modelled at the level of its
\* entries.
RetIdle ==
    /\ selListing = <<>>
    /\ selEntries = <<>>
    /\ selMaxFiles = 0
    /\ selMaxDays = 0
    /\ selResult = <<>>
    /\ selPc = "idle"
    /\ runIdx = 0
    /\ runDeleted = 0
    /\ runOps = <<>>
    /\ runLists = <<>>
    /\ runRet = [deleted |-> 0, err |-> ""]

\* No direct call of a single function is modelled.
CallIdle ==
    /\ sendIn = [url |-> "", notifyOn |-> "failure", status |-> "success", done |-> FALSE]
    /\ sendPc = "idle"
    /\ sendOut = [attempted |-> FALSE, posted |-> FALSE, delivered |-> FALSE]
    /\ engCfg = [BackupMode |-> "stream", Engine |-> "pg", BackupAllDatabases |-> FALSE,
                 DBURI |-> "", DBHost |-> "h", DBName |-> "n", BackupCompress |-> FALSE]
    /\ engMode = "stream"
    /\ engPc = "idle"
    /\ engOut = [err |-> "", bound |-> FALSE,
                 cmd |-> [tool |-> "", format |-> "", gzip |-> FALSE, uri |-> "",
                          host |-> "", db |-> ""]]

\* The state after construction, for a set of settings.
InitWith(configs) ==
    /\ PipeIdle
    /\ RetIdle
    /\ CallIdle
    /\ cfg \in configs
    /\ pc = [p \in Procs |-> IF p = MainProc THEN "boot" ELSE "idle"]
    /\ running = FALSE
    /\ cronState = "none"
    /\ fired = 0
    /\ tracker = NoTracker
    /\ status = [p \in Procs |-> "success"]
    /\ backupErr = [p \in Procs |-> NilErr]
    /\ remotePath = [p \in Procs |-> ""]
    /\ fileSize = [p \in Procs |-> 0]
    /\ ctxDone = [p \in Procs |-> FALSE]
    /\ calls = [p \in Procs |-> <<>>]
    /\ inFlight = [p \in Procs |-> FALSE]
    /\ exitCode = -1
    /\ stopResult = "none"
    /\ muWriter = NoHolder
    /\ muReaders = {}
    /\ clock = 0
    /\ updates = <<>>
    /\ rpc = "idle"
    /\ seen = NotSeen

\* Spec: every mode, lock and timeout setting, concurrent goroutines, the
\* housekeeping at its defaults.
Init == InitWith({c \in Config : DefaultHousekeeping(c)})

\* RunSpec: every housekeeping setting, runs one at a time.
RunInit == InitWith({c \in Config : Serialized(c)})

(***************************************************************************)
(* cmd/dbstash/main.go run                                                 *)
(***************************************************************************)
\* Dry run: log the configuration and return nil, whatever the schedule.
MainDryRun ==
    /\ pc[MainProc] = "boot"
    /\ cfg.DryRun
    /\ pc' = [pc EXCEPT ![MainProc] = "exit"]
    /\ exitCode' = 0
    /\ UNCHANGED <<restVars, cfg, running, cronState, fired, tracker, locals, ctxDone,
                   calls, inFlight>>

\* One-time backup: RunOnce is called on the main goroutine, tracker nil.
MainOnce ==
    /\ pc[MainProc] = "boot"
    /\ ~cfg.DryRun
    /\ cfg.ScheduleOnce
    /\ pc' = [pc EXCEPT ![MainProc] = "prehook"]
    /\ UNCHANGED <<restVars, cfg, running, cronState, fired, tracker, locals, ctxDone,
                   calls, inFlight, exitCode>>

\* Cron mode: create the tracker, spawn the on-start run (go RunOnce) when
\* configured, start the scheduler, then wait for a signal.
MainCron ==
    /\ pc[MainProc] = "boot"
    /\ ~cfg.DryRun
    /\ ~cfg.ScheduleOnce
    /\ tracker' = NewTracker
    /\ pc' = [pc EXCEPT ![MainProc] = "waitsig",
                        ![OnStartProc] = IF cfg.BackupOnStart THEN "spawned" ELSE @]
    /\ cronState' = "started"
    /\ UNCHANGED <<restVars, cfg, running, fired, locals, ctxDone, calls, inFlight, exitCode>>

\* The goroutine of `go scheduler.RunOnce(...)` starts running: it calls
\* RunOnce directly, not through runWithLock.
OnStartRun ==
    /\ pc[OnStartProc] = "spawned"
    /\ pc' = [pc EXCEPT ![OnStartProc] = "prehook"]
    /\ UNCHANGED <<restVars, cfg, running, cronState, fired, tracker, locals, ctxDone,
                   calls, inFlight, exitCode>>

(***************************************************************************)
(* internal/scheduler/scheduler.go                                         *)
(***************************************************************************)
\* A cron job (runWithLock, RunOnce included) that has started and not
\* returned: what cron's job waiter counts.
JobRunning(p) == p \in CronProcs /\ pc[p] \notin {"idle", "skipped", "exited"}

\* Mutant: Stop waits for the jobs without stopping the cron scheduler.
Stop_CronKeepsRunning ==
    /\ pc[MainProc] = "waitsig"
    /\ cronState = "started"
    /\ pc' = [pc EXCEPT ![MainProc] = "stopwait"]
    /\ UNCHANGED <<offVars, cfg, running, cronState, fired, tracker, locals, ctxDone,
                   calls, inFlight, exitCode, stopResult>>

\* A termination signal arrives and main calls sched.Stop(30s): s.cron.Stop()
\* makes the cron scheduler start no further job and hands back a context
\* that is done once the jobs already started have returned.
Stop ==
    /\ pc[MainProc] = "waitsig"
    /\ cronState = "started"
    /\ cronState' = "stopped"
    /\ pc' = [pc EXCEPT ![MainProc] = "stopwait"]
    /\ UNCHANGED <<offVars, cfg, running, fired, tracker, locals, ctxDone, calls,
                   inFlight, exitCode, stopResult>>

\* The select of Stop: <-ctx.Done() when no started job is left, or
\* <-time.After(timeout); then Stop returns.
StopReturn ==
    /\ pc[MainProc] = "stopwait"
    /\ \E case \in {"drained", "timeout"} :
        /\ case = "drained" => \A p \in CronProcs : ~JobRunning(p)
        /\ stopResult' = case
    /\ pc' = [pc EXCEPT ![MainProc] = "stopped"]
    /\ UNCHANGED <<offVars, cfg, running, cronState, fired, tracker, locals, ctxDone,
                   calls, inFlight, exitCode>>

\* Mutant: the guard is tested but never set (Load instead of CompareAndSwap).
runWithLock_TestOnly(p) ==
    /\ cronState = "started"
    /\ p = <<"cron", fired + 1>>
    /\ p \in CronProcs
    /\ pc[p] = "idle"
    /\ fired' = fired + 1
    /\ inFlight' = [inFlight EXCEPT ![p] = \E q \in CronProcs : InRunOnce(q)]
    /\ pc' = [pc EXCEPT ![p] = IF cfg.BackupLock /\ running THEN "skipped" ELSE "prehook"]
    /\ UNCHANGED running
    /\ UNCHANGED <<restVars, cfg, cronState, tracker, locals, ctxDone, calls, exitCode>>

\* Mutant: the skip branch logs its warning and falls through (no return).
runWithLock_NoReturn(p) ==
    /\ cronState = "started"
    /\ p = <<"cron", fired + 1>>
    /\ p \in CronProcs
    /\ pc[p] = "idle"
    /\ fired' = fired + 1
    /\ inFlight' = [inFlight EXCEPT ![p] = \E q \in CronProcs : InRunOnce(q)]
    /\ running' = (running \/ cfg.BackupLock)
    /\ pc' = [pc EXCEPT ![p] = "prehook"]
    /\ UNCHANGED <<restVars, cfg, cronState, tracker, locals, ctxDone, calls, exitCode>>

\* A trigger firing: cron runs the job func in a goroutine of its own, and
\* the job is runWithLock.  With the lock, a failed CompareAndSwap(false,
\* true) returns at once; otherwise RunOnce is called.
runWithLock(p) ==
    /\ cronState = "started"
    /\ p = <<"cron", fired + 1>>
    /\ p \in CronProcs
    /\ pc[p] = "idle"
    /\ fired' = fired + 1
    /\ inFlight' = [inFlight EXCEPT ![p] = \E q \in CronProcs : InRunOnce(q)]
    /\ IF cfg.BackupLock
         THEN IF running
                THEN /\ pc' = [pc EXCEPT ![p] = "skipped"]
                     /\ UNCHANGED running
                ELSE /\ running' = TRUE
                     /\ pc' = [pc EXCEPT ![p] = "prehook"]
         ELSE /\ pc' = [pc EXCEPT ![p] = "prehook"]
              /\ UNCHANGED running
    /\ UNCHANGED <<restVars, cfg, cronState, tracker, locals, ctxDone, calls, exitCode>>

\* The deferred s.running.Store(false) of runWithLock, after RunOnce returned.
runWithLockUnlock(p) ==
    /\ p \in CronProcs
    /\ pc[p] = "unlock"
    /\ running' = FALSE
    /\ pc' = [pc EXCEPT ![p] = "exited"]
    /\ UNCHANGED <<restVars, cfg, cronState, fired, tracker, locals, ctxDone, calls,
                   inFlight, exitCode>>

\* The timer of context.WithTimeout(parentCtx, cfg.BackupTimeout) expires
\* while the run is executing.
Timeout(p) ==
    /\ InRunOnce(p)
    /\ cfg.BackupTimeout > 0
    /\ ~ctxDone[p]
    /\ ctxDone' = [ctxDone EXCEPT ![p] = TRUE]
    /\ UNCHANGED <<restVars, cfg, pc, running, cronState, fired, tracker, locals, calls,
                   inFlight, exitCode>>

\* hooks.runHook: exec.CommandContext(ctx, "sh", "-c", command).Run().  An
\* empty command is a no-op; a cancelled context makes Run fail before the
\* command starts; otherwise the command runs and exits zero or not.
\* The set of possible [err, ran] results.
HookResults(command, done) ==
    IF command = "" THEN {[err |-> FALSE, ran |-> FALSE]}
    ELSE IF done THEN {[err |-> TRUE, ran |-> FALSE]}
    ELSE {[err |-> e, ran |-> TRUE] : e \in BOOLEAN}

\* Mutant: a failed pre-hook is recorded but the run goes on to the pipeline
\* (the goto is missing).
PreHook_NoGoto(p) ==
    /\ pc[p] = "prehook"
    /\ \E r \in HookResults(cfg.HookPreBackup, ctxDone[p]) :
        /\ calls' = LogCall(p, Call("RunPreBackup", r.err, "", "", r.ran))
        /\ IF r.err
             THEN /\ status' = [status EXCEPT ![p] = "failure"]
                  /\ backupErr' = [backupErr EXCEPT ![p] = PreHookErr]
             ELSE UNCHANGED <<status, backupErr>>
        /\ pc' = [pc EXCEPT ![p] = "execute"]
    /\ UNCHANGED <<restVars, cfg, running, cronState, fired, tracker, remotePath, fileSize,
                   ctxDone, inFlight, exitCode>>

\* RunOnce, the pre-backup hook: on failure mark the run failed and jump to
\* the post-hook (goto notify).
PreHook(p) ==
    /\ pc[p] = "prehook"
    /\ \E r \in HookResults(cfg.HookPreBackup, ctxDone[p]) :
        /\ calls' = LogCall(p, Call("RunPreBackup", r.err, "", "", r.ran))
        /\ IF r.err
             THEN /\ status' = [status EXCEPT ![p] = "failure"]
                  /\ backupErr' = [backupErr EXCEPT ![p] = PreHookErr]
                  /\ pc' = [pc EXCEPT ![p] = "posthook"]
             ELSE /\ pc' = [pc EXCEPT ![p] = "execute"]
                  /\ UNCHANGED <<status, backupErr>>
    /\ UNCHANGED <<restVars, cfg, running, cronState, fired, tracker, remotePath, fileSize,
                   ctxDone, inFlight, exitCode>>

\* Pipeline.Execute as RunOnce sees it: (remotePath, fileSize, err).  Every
\* failure returns ("", 0, err); a success returns the remote path and a
\* best-effort size.  With the context already cancelled the transfer tool
\* cannot be started, so the call fails.
ExecuteResults(done) ==
    {[path |-> "", size |-> 0, err |-> TRUE]}
    \cup (IF done THEN {}
          ELSE {[path |-> "remote/backup", size |-> n, err |-> FALSE] : n \in {0, 1}})

\* Mutant: a pipeline error is kept in backupErr but status is left alone.
Execute_StatusNotSet(p) ==
    /\ pc[p] = "execute"
    /\ \E r \in ExecuteResults(ctxDone[p]) :
        /\ calls' = LogCall(p, Call("Execute", r.err, "", r.path, TRUE))
        /\ remotePath' = [remotePath EXCEPT ![p] = r.path]
        /\ fileSize' = [fileSize EXCEPT ![p] = r.size]
        /\ backupErr' = [backupErr EXCEPT ![p] = IF r.err THEN PipelineErr ELSE NilErr]
        /\ UNCHANGED status
        /\ pc' = [pc EXCEPT ![p] = IF r.err THEN "posthook" ELSE "retention"]
    /\ UNCHANGED <<restVars, cfg, running, cronState, fired, tracker, ctxDone, inFlight,
                   exitCode>>

\* Mutant: retention cleanup is not inside the success branch.
Execute_AlwaysRetention(p) ==
    /\ pc[p] = "execute"
    /\ \E r \in ExecuteResults(ctxDone[p]) :
        /\ calls' = LogCall(p, Call("Execute", r.err, "", r.path, TRUE))
        /\ remotePath' = [remotePath EXCEPT ![p] = r.path]
        /\ fileSize' = [fileSize EXCEPT ![p] = r.size]
        /\ backupErr' = [backupErr EXCEPT ![p] = IF r.err THEN PipelineErr ELSE NilErr]
        /\ status' = [status EXCEPT ![p] = IF r.err THEN "failure" ELSE @]
        /\ pc' = [pc EXCEPT ![p] = "retention"]
    /\ UNCHANGED <<restVars, cfg, running, cronState, fired, tracker, ctxDone, inFlight,
                   exitCode>>

\* Mutant: a failed pipeline is executed a second time before giving up.
Execute_Retry(p) ==
    /\ pc[p] = "execute"
    /\ \E r \in ExecuteResults(ctxDone[p]) :
        /\ calls' = LogCall(p, Call("Execute", r.err, "", r.path, TRUE))
        /\ remotePath' = [remotePath EXCEPT ![p] = r.path]
        /\ fileSize' = [fileSize EXCEPT ![p] = r.size]
        /\ backupErr' = [backupErr EXCEPT ![p] = IF r.err THEN PipelineErr ELSE NilErr]
        /\ status' = [status EXCEPT ![p] = IF r.err THEN "failure" ELSE "success"]
        /\ pc' = [pc EXCEPT ![p] =
                     IF ~r.err THEN "retention"
                     ELSE IF Len(calls[p]) < 2 THEN "execute" ELSE "posthook"]
    /\ UNCHANGED <<restVars, cfg, running, cronState, fired, tracker, ctxDone, inFlight,
                   exitCode>>

\* RunOnce, the pipeline: the three results are assigned as returned; an
\* error marks the run failed, success leads on to retention.
Execute(p) ==
    /\ pc[p] = "execute"
    /\ \E r \in ExecuteResults(ctxDone[p]) :
        /\ calls' = LogCall(p, Call("Execute", r.err, "", r.path, TRUE))
        /\ remotePath' = [remotePath EXCEPT ![p] = r.path]
        /\ fileSize' = [fileSize EXCEPT ![p] = r.size]
        /\ IF r.err
             THEN /\ backupErr' = [backupErr EXCEPT ![p] = PipelineErr]
                  /\ status' = [status EXCEPT ![p] = "failure"]
                  /\ pc' = [pc EXCEPT ![p] = "posthook"]
             ELSE /\ backupErr' = [backupErr EXCEPT ![p] = NilErr]
                  /\ UNCHANGED status
                  /\ pc' = [pc EXCEPT ![p] = "retention"]
    /\ UNCHANGED <<restVars, cfg, running, cronState, fired, tracker, ctxDone, inFlight,
                   exitCode>>

\* RunOnce, the pipeline that does not return: Execute waits for the dump
\* (dumpCmd.Wait, dumpCmd.Run), a process built without the run's context
\* that the timeout does not kill, and for the goroutine copying its output
\* into a pipe nobody reads once rclone has exited.
ExecuteBlocks(p) ==
    /\ pc[p] = "execute"
    /\ pc' = [pc EXCEPT ![p] = "blocked"]
    /\ UNCHANGED <<restVars, cfg, running, cronState, fired, tracker, locals, ctxDone,
                   calls, inFlight, exitCode>>

\* retention.Run: nothing to do without a limit; otherwise the remote is
\* listed (rclone under the run's context), which can fail.
RetentionResults(enabled, done) ==
    IF ~enabled THEN {[err |-> FALSE, ran |-> FALSE]}
    ELSE IF done THEN {[err |-> TRUE, ran |-> FALSE]}
    ELSE {[err |-> e, ran |-> TRUE] : e \in BOOLEAN}

\* Mutant: a retention error is propagated as the run's error.
Retention_Propagates(p) ==
    /\ pc[p] = "retention"
    /\ \E r \in RetentionResults(cfg.Retention, ctxDone[p]) :
        /\ calls' = LogCall(p, Call("retention.Run", r.err, "", "", r.ran))
        /\ backupErr' = [backupErr EXCEPT ![p] = IF r.err THEN "retention failed" ELSE @]
    /\ pc' = [pc EXCEPT ![p] = "posthook"]
    /\ UNCHANGED <<restVars, cfg, running, cronState, fired, tracker, status, remotePath,
                   fileSize, ctxDone, inFlight, exitCode>>

\* RunOnce, retention cleanup (success branch only): its error is logged.
Retention(p) ==
    /\ pc[p] = "retention"
    /\ \E r \in RetentionResults(cfg.Retention, ctxDone[p]) :
        calls' = LogCall(p, Call("retention.Run", r.err, "", "", r.ran))
    /\ pc' = [pc EXCEPT ![p] = "posthook"]
    /\ UNCHANGED <<restVars, cfg, running, cronState, fired, tracker, locals, ctxDone,
                   inFlight, exitCode>>

\* Mutant: a failed post-hook marks the run failed.
PostHook_FailureSetsStatus(p) ==
    /\ pc[p] = "posthook"
    /\ \E r \in HookResults(cfg.HookPostBackup, ctxDone[p]) :
        /\ calls' = LogCall(p, Call("RunPostBackup", r.err, status[p], remotePath[p], r.ran))
        /\ status' = [status EXCEPT ![p] = IF r.err THEN "failure" ELSE @]
    /\ pc' = [pc EXCEPT ![p] = "health"]
    /\ UNCHANGED <<restVars, cfg, running, cronState, fired, tracker, backupErr, remotePath,
                   fileSize, ctxDone, inFlight, exitCode>>

\* RunOnce, label notify: the post-backup hook gets status and remotePath;
\* its error is logged.
PostHook(p) ==
    /\ pc[p] = "posthook"
    /\ \E r \in HookResults(cfg.HookPostBackup, ctxDone[p]) :
        calls' = LogCall(p, Call("RunPostBackup", r.err, status[p], remotePath[p], r.ran))
    /\ pc' = [pc EXCEPT ![p] = "health"]
    /\ UNCHANGED <<restVars, cfg, running, cronState, fired, tracker, locals, ctxDone,
                   inFlight, exitCode>>

\* Mutant: Update without its mutex.
Health_NoLock(p) ==
    /\ pc[p] = "health"
    /\ pc' = [pc EXCEPT ![p] = IF HasTracker(p) THEN "update1" ELSE "notify"]
    /\ UNCHANGED <<callVars, retVars, pipeVars, readerVars, trackVars, cfg, running, cronState, fired, tracker,
                   locals, ctxDone, calls, inFlight, exitCode, stopResult>>

\* RunOnce, the health tracker, when one was passed: tracker.Update(status)
\* starts with t.mu.Lock(), which waits for the writer and the readers.
Health(p) ==
    /\ pc[p] = "health"
    /\ IF HasTracker(p)
         THEN /\ muWriter = NoHolder
              /\ muReaders = {}
              /\ muWriter' = p
              /\ pc' = [pc EXCEPT ![p] = "update1"]
         ELSE /\ pc' = [pc EXCEPT ![p] = "notify"]
              /\ UNCHANGED muWriter
    /\ UNCHANGED <<callVars, retVars, pipeVars, readerVars, muReaders, clock, updates, cfg, running, cronState,
                   fired, tracker, locals, ctxDone, calls, inFlight, exitCode, stopResult>>

\* Tracker.Update: t.lastBackup = time.Now()
UpdateLastBackup(p) ==
    /\ pc[p] = "update1"
    /\ clock' = clock + 1
    /\ tracker' = [tracker EXCEPT !.lastBackup = clock + 1]
    /\ updates' = Append(updates, [time |-> clock + 1, status |-> status[p]])
    /\ pc' = [pc EXCEPT ![p] = "update2"]
    /\ UNCHANGED <<callVars, retVars, pipeVars, readerVars, muWriter, muReaders, cfg, running, cronState,
                   fired, locals, ctxDone, calls, inFlight, exitCode, stopResult>>

\* Tracker.Update: t.lastStatus = status, then the deferred t.mu.Unlock().
UpdateLastStatus(p) ==
    /\ pc[p] = "update2"
    /\ tracker' = [tracker EXCEPT !.lastStatus = status[p]]
    /\ muWriter' = IF muWriter = p THEN NoHolder ELSE muWriter
    /\ calls' = LogCall(p, Call("Update", FALSE, status[p], "", TRUE))
    /\ pc' = [pc EXCEPT ![p] = "notify"]
    /\ UNCHANGED <<callVars, retVars, pipeVars, readerVars, muReaders, clock, updates, cfg, running, cronState,
                   fired, locals, ctxDone, inFlight, exitCode, stopResult>>

\* Tracker.GetStatus, called by the /health handler: t.mu.RLock(), which
\* waits for the writer.  The handler exists once the tracker does.
GetStatus ==
    /\ rpc = "idle"
    /\ tracker.present
    /\ muWriter = NoHolder
    /\ muReaders' = muReaders \cup {ReaderProc}
    /\ rpc' = "readLastBackup"
    /\ UNCHANGED <<callVars, retVars, pipeVars, muWriter, clock, updates, seen, cfg, pc, running, cronState,
                   fired, tracker, locals, ctxDone, calls, inFlight, exitCode, stopResult>>

\* Tracker.GetStatus: the read of t.lastBackup.
GetStatusLastBackup ==
    /\ rpc = "readLastBackup"
    /\ seen' = [seen EXCEPT !.lastBackup = tracker.lastBackup]
    /\ rpc' = "readLastStatus"
    /\ UNCHANGED <<callVars, retVars, pipeVars, trackVars, cfg, pc, running, cronState, fired, tracker,
                   locals, ctxDone, calls, inFlight, exitCode, stopResult>>

\* Tracker.GetStatus: the read of t.lastStatus into the Status returned,
\* then the deferred t.mu.RUnlock().
GetStatusReturn ==
    /\ rpc = "readLastStatus"
    /\ seen' = [seen EXCEPT !.lastStatus = tracker.lastStatus]
    /\ muReaders' = muReaders \ {ReaderProc}
    /\ rpc' = "idle"
    /\ UNCHANGED <<callVars, retVars, pipeVars, muWriter, clock, updates, cfg, pc, running, cronState, fired,
                   tracker, locals, ctxDone, calls, inFlight, exitCode, stopResult>>

\* Mutant: an unknown policy admits every status.
shouldNotify_DefaultAlways(notifyOn, st) ==
    CASE notifyOn = "always" -> TRUE
      [] notifyOn = "failure" -> st = "failure"
      [] notifyOn = "success" -> st = "success"
      [] OTHER -> TRUE

shouldNotify(notifyOn, st) ==
    CASE notifyOn = "always" -> TRUE
      [] notifyOn = "failure" -> st = "failure"
      [] notifyOn = "success" -> st = "success"
      [] OTHER -> st = "failure"

\* notify.Send: returns before any request without a URL or when the policy
\* excludes the status; otherwise the request is made under the run's
\* context (ran), and fails at once if that context is cancelled.
SendResults(webhookURL, notifyOn, st, done) ==
    IF webhookURL = "" \/ ~shouldNotify(notifyOn, st)
      THEN {[err |-> FALSE, ran |-> FALSE]}
      ELSE IF done THEN {[err |-> TRUE, ran |-> TRUE]}
      ELSE {[err |-> e, ran |-> TRUE] : e \in BOOLEAN}

\* RunOnce, the notification: Send returns nothing.
Notify(p) ==
    /\ pc[p] = "notify"
    /\ \E r \in SendResults(cfg.NotifyWebhookURL, cfg.NotifyOn, status[p], ctxDone[p]) :
        calls' = LogCall(p, Call("Send", r.err, status[p], remotePath[p], r.ran))
    /\ pc' = [pc EXCEPT ![p] = "return"]
    /\ UNCHANGED <<restVars, cfg, running, cronState, fired, tracker, locals, ctxDone,
                   inFlight, exitCode>>

\* What RunOnce returns: backupErr (nil on success).
RunOnceResult(p) == backupErr[p]

\* Mutant: the process exits 0 whatever RunOnce returned.
Return_ExitZero(p) ==
    /\ pc[p] = "return"
    /\ pc' = [pc EXCEPT ![p] =
                 IF p = MainProc THEN "exit"
                 ELSE IF p \in CronProcs /\ cfg.BackupLock THEN "unlock"
                 ELSE "exited"]
    /\ exitCode' = IF p = MainProc THEN 0 ELSE exitCode
    /\ status' = [status EXCEPT ![p] = "success"]
    /\ backupErr' = [backupErr EXCEPT ![p] = NilErr]
    /\ remotePath' = [remotePath EXCEPT ![p] = ""]
    /\ fileSize' = [fileSize EXCEPT ![p] = 0]
    /\ ctxDone' = [ctxDone EXCEPT ![p] = FALSE]
    /\ calls' = [calls EXCEPT ![p] = <<>>]
    /\ UNCHANGED <<restVars, cfg, running, cronState, fired, tracker, inFlight>>

\* RunOnce returns to its caller and the goroutine's frame is gone: main
\* exits 1 on an error and 0 otherwise, a cron goroutine goes on to the
\* deferred unlock when the lock is enabled, the on-start goroutine ends.
Return(p) ==
    /\ pc[p] = "return"
    /\ pc' = [pc EXCEPT ![p] =
                 IF p = MainProc THEN "exit"
                 ELSE IF p \in CronProcs /\ cfg.BackupLock THEN "unlock"
                 ELSE "exited"]
    /\ exitCode' = IF p = MainProc
                     THEN (IF RunOnceResult(p) # NilErr THEN 1 ELSE 0)
                     ELSE exitCode
    /\ status' = [status EXCEPT ![p] = "success"]
    /\ backupErr' = [backupErr EXCEPT ![p] = NilErr]
    /\ remotePath' = [remotePath EXCEPT ![p] = ""]
    /\ fileSize' = [fileSize EXCEPT ![p] = 0]
    /\ ctxDone' = [ctxDone EXCEPT ![p] = FALSE]
    /\ calls' = [calls EXCEPT ![p] = <<>>]
    /\ UNCHANGED <<restVars, cfg, running, cronState, fired, tracker, inFlight>>

Next ==
    \/ MainDryRun
    \/ MainOnce
    \/ MainCron
    \/ OnStartRun
    \/ Stop
    \/ StopReturn
    \/ \E p \in Procs :
        \/ runWithLock(p)
        \/ runWithLockUnlock(p)
        \/ Timeout(p)
        \/ PreHook(p)
        \/ Execute(p)
        \/ Retention(p)
        \/ PostHook(p)
        \/ Health(p)
        \/ UpdateLastBackup(p)
        \/ UpdateLastStatus(p)
        \/ Notify(p)
        \/ Return(p)

Spec == Init /\ [][Next]_vars

\* The steps of the serialized process: no dry run, no on-start goroutine.
RunNext ==
    \/ MainOnce
    \/ MainCron
    \/ Stop
    \/ StopReturn
    \/ \E p \in Procs :
        \/ runWithLock(p)
        \/ runWithLockUnlock(p)
        \/ Timeout(p)
        \/ PreHook(p)
        \/ Execute(p)
        \/ Retention(p)
        \/ PostHook(p)
        \/ Health(p)
        \/ UpdateLastBackup(p)
        \/ UpdateLastStatus(p)
        \/ Notify(p)
        \/ Return(p)

RunSpec == RunInit /\ [][RunNext]_vars

\* HealthSpec: the process with the /health handler reading the Tracker
\* while runs update it; no timeout, the housekeeping at its defaults.
HealthInit ==
    InitWith({c \in Config : DefaultHousekeeping(c) /\ ~c.DryRun /\ c.BackupTimeout = 0})

HealthNext ==
    \/ MainOnce
    \/ MainCron
    \/ OnStartRun
    \/ GetStatus
    \/ GetStatusLastBackup
    \/ GetStatusReturn
    \/ \E p \in Procs :
        \/ runWithLock(p)
        \/ runWithLockUnlock(p)
        \/ PreHook(p)
        \/ Execute(p)
        \/ Retention(p)
        \/ PostHook(p)
        \/ Health(p)
        \/ UpdateLastBackup(p)
        \/ UpdateLastStatus(p)
        \/ Notify(p)
        \/ Return(p)

HealthSpec == HealthInit /\ [][HealthNext]_vars

\* LockSpec: cron mode with the overlap guard and a timeout, every
\* housekeeping setting; a run's Execute may also not return.  The
\* goroutine of a run keeps being scheduled and the timer of a run expires.
LockInit ==
    InitWith({c \in Config : ~c.DryRun /\ ~c.ScheduleOnce /\ c.BackupLock
                                /\ ~c.BackupOnStart /\ c.BackupTimeout = 1})

RunProgress(p) ==
    \/ runWithLockUnlock(p)
    \/ PreHook(p)
    \/ Execute(p)
    \/ Retention(p)
    \/ PostHook(p)
    \/ Health(p)
    \/ UpdateLastBackup(p)
    \/ UpdateLastStatus(p)
    \/ Notify(p)
    \/ Return(p)

\* The steps in which every Execute call returns.
TimedNext ==
    \/ MainCron
    \/ Stop
    \/ StopReturn
    \/ \E p \in Procs :
        \/ runWithLock(p)
        \/ Timeout(p)
        \/ RunProgress(p)

LockNext ==
    \/ TimedNext
    \/ \E p \in Procs : ExecuteBlocks(p)

LockSpec ==
    /\ LockInit
    /\ [][LockNext]_vars
    /\ \A p \in CronProcs : WF_vars(RunProgress(p)) /\ WF_vars(Timeout(p))

\* TimedSpec: the executions of LockSpec in which every Execute call
\* returns.
TimedSpec ==
    /\ LockInit
    /\ [][TimedNext]_vars
    /\ \A p \in CronProcs : WF_vars(RunProgress(p)) /\ WF_vars(Timeout(p))

(***************************************************************************)
(* internal/notify: one call of Send                                       *)
(***************************************************************************)
\* The arguments of the call: a URL is empty, well-formed, or one that
\* http.NewRequestWithContext cannot parse; the policy is a valid one, empty
\* or unknown; done is the state of the context passed.
WebhookURLs == {"", "url", "::bad"}
NotifyPolicies == {"always", "failure", "success", "", "never"}
Statuses == {"success", "failure"}

\* Send is called with some arguments; its two guards: no URL, or a status
\* the policy excludes.
SendGuards ==
    /\ sendPc = "idle"
    /\ \E url \in WebhookURLs, notifyOn \in NotifyPolicies, st \in Statuses, done \in BOOLEAN :
          /\ sendIn' = [url |-> url, notifyOn |-> notifyOn, status |-> st, done |-> done]
          /\ IF url = "" \/ ~shouldNotify(notifyOn, st)
               THEN sendPc' = "returned" /\ UNCHANGED sendOut
               ELSE /\ sendPc' = "request"
                    /\ sendOut' = [sendOut EXCEPT !.attempted = TRUE]
    /\ UNCHANGED <<schedVars, pipeVars, retVars, engVars>>

\* Send, the payload and the request: marshalling the payload cannot fail,
\* building the request fails on a URL that does not parse.
SendNewRequest ==
    /\ sendPc = "request"
    /\ sendPc' = IF sendIn.url = "::bad" THEN "returned" ELSE "do"
    /\ UNCHANGED <<schedVars, pipeVars, retVars, engVars, sendIn, sendOut>>

\* Send, client.Do: an error (always, under a cancelled context), a status
\* of 300 or more, or a delivery; each is logged and Send returns.
SendDo ==
    /\ sendPc = "do"
    /\ \E outcome \in (IF sendIn.done THEN {"error"} ELSE {"error", "status", "ok"}) :
          sendOut' = [sendOut EXCEPT !.posted = TRUE, !.delivered = (outcome = "ok")]
    /\ sendPc' = "returned"
    /\ UNCHANGED <<schedVars, pipeVars, retVars, engVars, sendIn>>

\* SendSpec: one direct call of Send with every argument, next to a
\* once-mode process with every webhook, policy and timeout setting.
SendInit ==
    InitWith({c \in Config : /\ c.ScheduleOnce /\ ~c.DryRun
                             /\ ~c.BackupLock /\ ~c.BackupOnStart /\ ~c.Retention
                             /\ c.HookPreBackup = "" /\ c.HookPostBackup = ""})

SendNext ==
    \/ SendGuards
    \/ SendNewRequest
    \/ SendDo
    \/ MainOnce
    \/ \E p \in Procs :
        \/ Timeout(p)
        \/ PreHook(p)
        \/ Execute(p)
        \/ Retention(p)
        \/ PostHook(p)
        \/ Health(p)
        \/ Notify(p)
        \/ Return(p)

SendSpec == SendInit /\ [][SendNext]_vars

(***************************************************************************)
(* internal/engine: DumpCommand                                            *)
(***************************************************************************)
\* The settings DumpCommand reads, as any caller may fill them.  DBURI is
\* empty, a URI with or without a database name, or one url.Parse rejects;
\* a discrete field is empty or set.
URIs == {"", "scheme://host/db", "scheme://host", "scheme://%/db"}

EngineConfig ==
    [ BackupMode : {"stream"},
      Engine : {"pg", "mongo", "mysql", "mariadb", "redis"},
      BackupAllDatabases : BOOLEAN,
      DBURI : URIs,
      DBHost : {"", "h"},
      DBName : {"", "n"},
      BackupCompress : BOOLEAN ]

\* The settings the pipelines read, after Prepare: without DBURI, DB_HOST is
\* set and so is DB_NAME, unless every database is to be dumped.
PipeConfig ==
    { c \in [ BackupMode : {"stream", "directory", "tar"},
              Engine : {"pg", "mongo", "mysql", "redis"},
              BackupAllDatabases : BOOLEAN,
              DBURI : {"", "scheme://host/db", "scheme://host"},
              DBHost : {"", "h"},
              DBName : {"", "n"},
              BackupCompress : BOOLEAN ] :
        IF c.DBURI = ""
          THEN c.DBHost = "h" /\ (c.DBName = "") = c.BackupAllDatabases
          ELSE c.DBHost = "" /\ c.DBName = "" }

\* The mode arguments: the two of the pipelines, and what dryRun passes
\* (cfg.BackupMode, which may be tar).
DumpModes == {"stream", "directory", "tar"}

\* engine.dbNameFromURI: the database name in the URI's path, "" when none.
dbNameFromURI(uri) == IF uri \in {"scheme://host/db", "scheme://%/db"} THEN "db" ELSE ""

\* engine.stripDBFromURI: the URI without its database name.
stripDBFromURI(uri) ==
    CASE uri = "scheme://host/db" -> "scheme://host"
      [] uri = "scheme://%/db" -> "scheme://%"
      [] OTHER -> uri

\* net/url Parse, Hostname and the path without its leading slash.
urlParses(uri) == uri # "scheme://%/db"
urlHostname(uri) == IF uri = "" THEN "" ELSE "host"
urlPathName(uri) == IF uri = "scheme://host/db" THEN "db" ELSE ""

\* No command (nil), and a command: the tool, the output format it is asked
\* for, whether it compresses, and the connection it is given: a URI, or a
\* host and a database name (as flags, arguments or, for pg, PG* variables).
NoCmd == [tool |-> "", format |-> "", gzip |-> FALSE, uri |-> "", host |-> "", db |-> ""]
Cmd(tool, format, gzip, uri, host, db) ==
    [tool |-> tool, format |-> format, gzip |-> gzip, uri |-> uri, host |-> host, db |-> db]

\* What DumpCommand returns: the error ("" for nil), the command and
\* whether it is bound to a context.  Every engine builds its command with
\* exec.Command, which takes no context.
Unsupported == [err |-> "unsupported mode", bound |-> FALSE, cmd |-> NoCmd]
NoDatabase == [err |-> "no database name", bound |-> FALSE, cmd |-> NoCmd]
Built(cmd) == [err |-> "", bound |-> FALSE, cmd |-> cmd]

\* Postgres.dumpAllCommand
dumpAllCommand(c, mode) ==
    IF mode # "stream" THEN Unsupported
    ELSE IF c.DBURI # ""
      THEN Built(Cmd("pg_dumpall", "", FALSE, stripDBFromURI(c.DBURI), "", ""))
      ELSE Built(Cmd("pg_dumpall", "", FALSE, "", c.DBHost, ""))

\* Mutant: pg_dump is given a URI without a database name.
PostgresDumpCommand_NoNameCheck(c, mode) ==
    LET format == CASE mode = "stream" -> IF c.BackupCompress THEN "custom" ELSE "plain"
                    [] mode = "directory" -> "directory"
                    [] OTHER -> ""
    IN  IF c.BackupAllDatabases THEN dumpAllCommand(c, mode)
        ELSE IF mode \notin {"stream", "directory"} THEN Unsupported
        ELSE IF c.DBURI # ""
          THEN Built(Cmd("pg_dump", format, FALSE, c.DBURI, "", ""))
          ELSE Built(Cmd("pg_dump", format, FALSE, "", c.DBHost, c.DBName))

\* Postgres.DumpCommand
PostgresDumpCommand(c, mode) ==
    LET format == CASE mode = "stream" -> IF c.BackupCompress THEN "custom" ELSE "plain"
                    [] mode = "directory" -> "directory"
                    [] OTHER -> ""
    IN  IF c.BackupAllDatabases THEN dumpAllCommand(c, mode)
        ELSE IF mode \notin {"stream", "directory"} THEN Unsupported
        ELSE IF c.DBURI # ""
          THEN (IF dbNameFromURI(c.DBURI) = "" THEN NoDatabase
                ELSE Built(Cmd("pg_dump", format, FALSE, c.DBURI, "", "")))
          ELSE Built(Cmd("pg_dump", format, FALSE, "", c.DBHost, c.DBName))

\* Mutant: mongodump is given a URI without a database name.
MongoDumpCommand_NoNameCheck(c, mode) ==
    LET format == IF mode = "stream" THEN "archive" ELSE "out"
    IN  IF mode \notin {"stream", "directory"} THEN Unsupported
        ELSE IF c.DBURI # ""
          THEN (IF c.BackupAllDatabases
                  THEN Built(Cmd("mongodump", format, c.BackupCompress,
                                 stripDBFromURI(c.DBURI), "", ""))
                ELSE Built(Cmd("mongodump", format, c.BackupCompress, c.DBURI, "",
                               dbNameFromURI(c.DBURI))))
          ELSE Built(Cmd("mongodump", format, c.BackupCompress, "", c.DBHost,
                         IF c.BackupAllDatabases THEN "" ELSE c.DBName))

\* Mongo.DumpCommand
MongoDumpCommand(c, mode) ==
    LET format == IF mode = "stream" THEN "archive" ELSE "out"
    IN  IF mode \notin {"stream", "directory"} THEN Unsupported
        ELSE IF c.DBURI # ""
          THEN (IF c.BackupAllDatabases
                  THEN Built(Cmd("mongodump", format, c.BackupCompress,
                                 stripDBFromURI(c.DBURI), "", ""))
                ELSE IF dbNameFromURI(c.DBURI) = "" THEN NoDatabase
                ELSE Built(Cmd("mongodump", format, c.BackupCompress, c.DBURI, "",
                               dbNameFromURI(c.DBURI))))
          ELSE Built(Cmd("mongodump", format, c.BackupCompress, "", c.DBHost,
                         IF c.BackupAllDatabases THEN "" ELSE c.DBName))

\* MySQL.resolveConnection and Redis.resolveConnection: the host and the
\* database name of the URI when it is set and parses, the discrete fields
\* otherwise.
resolveConnection(c) ==
    IF c.DBURI # "" /\ urlParses(c.DBURI)
      THEN [host |-> urlHostname(c.DBURI), dbName |-> urlPathName(c.DBURI)]
      ELSE [host |-> c.DBHost, dbName |-> c.DBName]

\* MySQL.DumpCommand
MySQLDumpCommand(c, mode) ==
    IF mode \notin {"stream", "directory"} THEN Unsupported
    ELSE Built(Cmd("mysqldump", IF mode = "directory" THEN "tab" ELSE "", FALSE, "",
                   resolveConnection(c).host, resolveConnection(c).dbName))

\* Mutant: Redis builds its command whatever the mode.
RedisDumpCommand_AnyMode(c, mode) ==
    Built(Cmd("redis-cli", "rdb", FALSE, "", resolveConnection(c).host, ""))

\* Redis.DumpCommand
RedisDumpCommand(c, mode) ==
    IF mode # "stream" THEN Unsupported
    ELSE Built(Cmd("redis-cli", "rdb", FALSE, "", resolveConnection(c).host, ""))

\* engine.New(cfg.Engine).DumpCommand(cfg, mode, outputDir)
DumpCommand(c, mode) ==
    CASE c.Engine = "pg" -> PostgresDumpCommand(c, mode)
      [] c.Engine = "mongo" -> MongoDumpCommand(c, mode)
      [] c.Engine \in {"mysql", "mariadb"} -> MySQLDumpCommand(c, mode)
      [] c.Engine = "redis" -> RedisDumpCommand(c, mode)

\* One direct call of DumpCommand, with any settings and mode.
DumpCommandCall ==
    /\ engPc = "idle"
    /\ \E c \in EngineConfig, mode \in DumpModes :
          /\ engCfg' = c
          /\ engMode' = mode
          /\ engOut' = DumpCommand(c, mode)
    /\ engPc' = "returned"
    /\ UNCHANGED <<schedVars, pipeVars, retVars, sendVars>>

\* EngSpec: one call of Engine.DumpCommand.
EngInit == InitWith({c \in Config : DefaultHousekeeping(c) /\ c.DryRun /\ ~c.ScheduleOnce
                                    /\ ~c.BackupLock /\ ~c.BackupOnStart /\ c.BackupTimeout = 0})

EngNext == DumpCommandCall

EngSpec == EngInit /\ [][EngNext]_vars

(***************************************************************************)
(* internal/pipeline: one Execute call and its processes                   *)
(***************************************************************************)
Producer == IF pipeCfg.BackupMode = "stream" THEN "dump" ELSE "tar"

Exited(n) == proc[n].st \in {"ok", "err", "killed"}

\* cmd.Wait returns once the process has exited and the goroutine copying
\* its output into the pipe has finished.
WaitReturns(n) == Exited(n) /\ ~proc[n].stuck
WaitErr(n) == proc[n].st # "ok"

\* cmd.Start: a command made with exec.CommandContext fails to start once
\* its context is cancelled; any command may fail to start.
StartResults(bound) == IF bound /\ pctx THEN {FALSE} ELSE BOOLEAN

Started(n, bound) == [proc EXCEPT ![n] = [st |-> "running", bound |-> bound, stuck |-> FALSE]]

\* Execute returning with the staging directory removed on success only.
PipeReturn_KeepOnError(path, size, err) ==
    /\ ret' = [path |-> path, size |-> size, err |-> err]
    /\ ppc' = "done"
    /\ tempDir' = IF tempDir = "exists" /\ err = "nil" THEN "removed" ELSE tempDir

\* Execute returns; the deferred os.RemoveAll(tempDir) runs.
PipeReturn(path, size, err) ==
    /\ ret' = [path |-> path, size |-> size, err |-> err]
    /\ ppc' = "done"
    /\ tempDir' = IF tempDir = "exists" THEN "removed" ELSE tempDir

PipeInit ==
    /\ cfg \in {c \in Config : DefaultHousekeeping(c) /\ ~c.DryRun /\ c.ScheduleOnce
                                /\ c.BackupLock /\ ~c.BackupOnStart /\ c.BackupTimeout = 1}
    /\ pc = [p \in Procs |-> IF p = MainProc THEN "execute" ELSE "idle"]
    /\ running = FALSE
    /\ cronState = "none"
    /\ fired = 0
    /\ tracker = NoTracker
    /\ status = [p \in Procs |-> "success"]
    /\ backupErr = [p \in Procs |-> NilErr]
    /\ remotePath = [p \in Procs |-> ""]
    /\ fileSize = [p \in Procs |-> 0]
    /\ ctxDone = [p \in Procs |-> FALSE]
    /\ calls = [p \in Procs |-> <<>>]
    /\ inFlight = [p \in Procs |-> FALSE]
    /\ exitCode = -1
    /\ stopResult = "none"
    /\ muWriter = NoHolder
    /\ muReaders = {}
    /\ clock = 0
    /\ updates = <<>>
    /\ rpc = "idle"
    /\ seen = NotSeen
    /\ RetIdle
    /\ CallIdle
    /\ pipeCfg \in PipeConfig
    /\ ppc = "start"
    /\ pctx = FALSE
    /\ proc = [n \in ProcNames |-> NoProc]
    /\ left = (IF pipeCfg.BackupMode = "directory" THEN 0 ELSE MaxChunks)
    /\ pw = "none"
    /\ pr = "none"
    /\ tempDir = "none"
    /\ remoteOps = <<>>
    /\ atCancel = {}
    /\ ret = [path |-> "", size |-> 0, err |-> ""]
    /\ sizeQuery = NoQuery
    /\ waited = {}

\* The context of the run is cancelled (BACKUP_TIMEOUT expires): the
\* processes started with exec.CommandContext are killed.
Cancel ==
    /\ ppc \notin {"idle", "done"}
    /\ ~pctx
    /\ pctx' = TRUE
    /\ atCancel' = {n \in ProcNames : proc[n].st = "running"}
    /\ proc' = [n \in ProcNames |->
                   IF proc[n].st = "running" /\ proc[n].bound
                     THEN [proc[n] EXCEPT !.st = "killed"]
                     ELSE proc[n]]
    /\ UNCHANGED <<waited, sizeQuery, callVars, retVars, schedVars, pipeCfg, ppc, left, pw, pr, tempDir, remoteOps, ret>>

\* The producer writes a chunk into the pipe and rclone rcat reads it.
ProducerWrite ==
    /\ pw = "open"
    /\ proc[Producer].st = "running" /\ ~proc[Producer].stuck
    /\ proc["rclone"].st = "running"
    /\ left > 0
    /\ left' = left - 1
    /\ UNCHANGED <<waited, sizeQuery, callVars, retVars, schedVars, pipeCfg, ppc, pctx, proc, pw, pr, tempDir, remoteOps,
                   atCancel, ret>>

\* The producer writes a chunk after rclone has exited: nothing reads the
\* io.Pipe any more (its read end is closed only after both waits), so the
\* write never completes.
ProducerBlock ==
    /\ pw = "open"
    /\ proc[Producer].st = "running" /\ ~proc[Producer].stuck
    /\ Exited("rclone")
    /\ left > 0
    /\ proc' = [proc EXCEPT ![Producer].stuck = TRUE]
    /\ UNCHANGED <<waited, sizeQuery, callVars, retVars, schedVars, pipeCfg, ppc, pctx, left, pw, pr, tempDir, remoteOps,
                   atCancel, ret>>

\* A process exits by itself.  A producer exits zero only after writing all
\* its output; rclone rcat only after its input has ended (write end
\* closed); a process blocked in a write does not exit.
ProcExit(n, how) ==
    /\ proc[n].st = "running" /\ ~proc[n].stuck
    /\ how = "ok" =>
          /\ (n = Producer /\ pw # "none") => left = 0
          /\ (n = "rclone" /\ pw # "none") => pw = "closed"
    /\ proc' = [proc EXCEPT ![n].st = how]
    /\ UNCHANGED <<waited, sizeQuery, callVars, retVars, schedVars, pipeCfg, ppc, pctx, left, pw, pr, tempDir, remoteOps,
                   atCancel, ret>>

\* int64 in the model: SizeBits bits, two's complement.
MaxInt64 == 2 ^ (SizeBits - 1) - 1
MinInt64 == -(2 ^ (SizeBits - 1))

\* What rclone size --json may print: nothing of use, a "bytes": key with no
\* "," or "}" after it, and a "bytes": key followed by a text that is not a
\* number, by a number, by a negative number, or by a number out of range.
SizeOutputs ==
    {"{}", "{\"bytes\":1", "{\"bytes\":x}", "{\"bytes\":1}", "{\"bytes\":-1}",
     "{\"bytes\":-99999999999999999999}", "{\"bytes\":99999999999999999999}"}

\* The text between "bytes": and the next "," or "}", trimmed; "none" when
\* there is no such key or no such end.
BytesField(out) ==
    CASE out = "{\"bytes\":x}" -> "x"
      [] out = "{\"bytes\":1}" -> "1"
      [] out = "{\"bytes\":-1}" -> "-1"
      [] out = "{\"bytes\":-99999999999999999999}" -> "-99999999999999999999"
      [] out = "{\"bytes\":99999999999999999999}" -> "99999999999999999999"
      [] OTHER -> "none"

\* strconv.ParseInt(s, 10, 64): the value, and whether it returned an error;
\* 0 on a syntax error, the nearest int64 on a range error.
ParseInt(s) ==
    CASE s = "1" -> [n |-> 1, err |-> FALSE]
      [] s = "-1" -> [n |-> -1, err |-> FALSE]
      [] s = "-99999999999999999999" -> [n |-> MinInt64, err |-> TRUE]
      [] s = "99999999999999999999" -> [n |-> MaxInt64, err |-> TRUE]
      [] OTHER -> [n |-> 0, err |-> TRUE]

\* getRemoteFileSize, given whether cmd.Output() failed and what it printed:
\* 0 when the query fails or has no delimited "bytes": field, else what
\* ParseInt gives, its error dropped.
getRemoteFileSize(failed, out) ==
    IF failed \/ BytesField(out) = "none" THEN 0 ELSE ParseInt(BytesField(out)).n

\* The size queries that may happen: the command, made with
\* exec.CommandContext, fails without starting under a cancelled context.
SizeQueries ==
    IF pctx THEN {[made |-> TRUE, failed |-> TRUE, out |-> ""]}
    ELSE {[made |-> TRUE, failed |-> failed, out |-> out] :
             failed \in BOOLEAN, out \in SizeOutputs}

(* StreamPipeline.Execute *)

\* Mutant: the error of DumpCommand is not looked at.
StreamBuild_IgnoreError ==
    /\ ppc = "start" /\ pipeCfg.BackupMode = "stream"
    /\ ppc' = "startRclone"
    /\ pw' = "open" /\ pr' = "open"
    /\ UNCHANGED <<ret, tempDir>>
    /\ UNCHANGED <<waited, sizeQuery, callVars, retVars, schedVars, pipeCfg, pctx, proc, left, remoteOps, atCancel>>

\* Resolve the name, build the dump command and the rclone command, make
\* the pipe.
StreamBuild ==
    /\ ppc = "start" /\ pipeCfg.BackupMode = "stream"
    /\ IF DumpCommand(pipeCfg, "stream").err # ""
         THEN /\ PipeReturn("", 0, "building dump command")
              /\ UNCHANGED <<pw, pr>>
         ELSE /\ ppc' = "startRclone"
              /\ pw' = "open" /\ pr' = "open"
              /\ UNCHANGED <<ret, tempDir>>
    /\ UNCHANGED <<waited, sizeQuery, callVars, retVars, schedVars, pipeCfg, pctx, proc, left, remoteOps, atCancel>>

\* rcloneCmd.Start(), first.
StreamStartRclone ==
    /\ ppc = "startRclone" /\ pipeCfg.BackupMode = "stream"
    /\ \E ok \in StartResults(TRUE) :
        IF ok
          THEN /\ proc' = Started("rclone", TRUE)
               /\ remoteOps' = Append(remoteOps, "rcat")
               /\ ppc' = "startDump"
               /\ UNCHANGED <<ret, tempDir>>
          ELSE /\ PipeReturn("", 0, "starting rclone")
               /\ UNCHANGED <<proc, remoteOps>>
    /\ UNCHANGED <<waited, sizeQuery, callVars, retVars, schedVars, pipeCfg, pctx, left, pw, pr, atCancel>>

\* dumpCmd.Start(); on failure close the write end and wait for rclone.
StreamStartDump ==
    /\ ppc = "startDump" /\ pipeCfg.BackupMode = "stream"
    /\ \E ok \in StartResults(DumpCommand(pipeCfg, "stream").bound) :
        IF ok
          THEN /\ proc' = Started("dump", DumpCommand(pipeCfg, "stream").bound)
               /\ ppc' = "waitDump"
               /\ UNCHANGED pw
          ELSE /\ pw' = "closed"
               /\ ppc' = "waitRcloneAfterStartFailure"
               /\ UNCHANGED proc
    /\ UNCHANGED <<waited, sizeQuery, callVars, retVars, schedVars, pipeCfg, pctx, left, pr, tempDir, remoteOps, atCancel, ret>>

\* rcloneCmd.Wait() after the dump failed to start, then the error.
StreamStartDumpFailed ==
    /\ ppc = "waitRcloneAfterStartFailure" /\ pipeCfg.BackupMode = "stream"
    /\ WaitReturns("rclone")
    /\ waited' = waited \cup {"rclone"}
    /\ PipeReturn("", 0, "starting dump")
    /\ UNCHANGED <<sizeQuery, callVars, retVars, schedVars, pipeCfg, pctx, proc, left, pw, pr, remoteOps, atCancel>>

\* Mutant: the write end stays open after the dump's wait.
StreamWaitDump_NoClose ==
    /\ ppc = "waitDump" /\ pipeCfg.BackupMode = "stream"
    /\ WaitReturns("dump")
    /\ waited' = waited \cup {"dump"}
    /\ ppc' = "waitRclone"
    /\ UNCHANGED <<sizeQuery, callVars, retVars, schedVars, pipeCfg, pctx, proc, left, pw, pr, tempDir,
                   remoteOps, atCancel, ret>>

\* dumpCmd.Wait(), then pw.Close().
StreamWaitDump ==
    /\ ppc = "waitDump" /\ pipeCfg.BackupMode = "stream"
    /\ WaitReturns("dump")
    /\ waited' = waited \cup {"dump"}
    /\ pw' = "closed"
    /\ ppc' = "waitRclone"
    /\ UNCHANGED <<sizeQuery, callVars, retVars, schedVars, pipeCfg, pctx, proc, left, pr, tempDir, remoteOps,
                   atCancel, ret>>

\* Mutant: a failed rclone rcat is followed by cleanupRemoteFile.
StreamWaitRclone_Cleanup ==
    /\ ppc = "waitRclone" /\ pipeCfg.BackupMode = "stream"
    /\ WaitReturns("rclone")
    /\ waited' = waited \cup {"rclone"}
    /\ pr' = "closed"
    /\ IF WaitErr("dump") THEN PipeReturn("", 0, "dump failed") /\ UNCHANGED remoteOps
       ELSE IF WaitErr("rclone")
         THEN /\ PipeReturn("", 0, "rclone rcat failed")
              /\ remoteOps' = Append(remoteOps, "deletefile")
       ELSE /\ ppc' = "size"
            /\ UNCHANGED <<ret, tempDir, remoteOps>>
    /\ UNCHANGED <<sizeQuery, callVars, retVars, schedVars, pipeCfg, pctx, proc, left, pw, atCancel>>

\* rcloneCmd.Wait(), pr.Close(), then the dump's error, else rclone's.
StreamWaitRclone ==
    /\ ppc = "waitRclone" /\ pipeCfg.BackupMode = "stream"
    /\ WaitReturns("rclone")
    /\ waited' = waited \cup {"rclone"}
    /\ pr' = "closed"
    /\ IF WaitErr("dump") THEN PipeReturn("", 0, "dump failed")
       ELSE IF WaitErr("rclone") THEN PipeReturn("", 0, "rclone rcat failed")
       ELSE /\ ppc' = "size"
            /\ UNCHANGED <<ret, tempDir>>
    /\ UNCHANGED <<sizeQuery, callVars, retVars, schedVars, pipeCfg, pctx, proc, left, pw, remoteOps, atCancel>>

\* The best-effort size query and the successful return.
StreamSize ==
    /\ ppc = "size" /\ pipeCfg.BackupMode = "stream"
    /\ remoteOps' = IF pctx THEN remoteOps ELSE Append(remoteOps, "size")
    /\ \E q \in SizeQueries :
          /\ sizeQuery' = q
          /\ PipeReturn("remote/file", getRemoteFileSize(q.failed, q.out), "nil")
    /\ UNCHANGED <<waited, callVars, retVars, schedVars, pipeCfg, pctx, proc, left, pw, pr, atCancel>>

(* DirectoryPipeline.Execute and TarPipeline.Execute: the dump to a temp dir *)

TempModes == {"directory", "tar"}

\* os.MkdirTemp (retried once after MkdirAll), defer os.RemoveAll(tempDir).
MkTemp(m) ==
    /\ ppc = "start" /\ pipeCfg.BackupMode = m
    /\ \E ok \in BOOLEAN :
        IF ok
          THEN /\ tempDir' = "exists"
               /\ ppc' = "build"
               /\ UNCHANGED ret
          ELSE PipeReturn("", 0, "creating temp dir")
    /\ UNCHANGED <<waited, sizeQuery, callVars, retVars, schedVars, pipeCfg, pctx, proc, left, pw, pr, remoteOps, atCancel>>

\* eng.DumpCommand(cfg, "directory", tempDir)
BuildDump(m) ==
    /\ ppc = "build" /\ pipeCfg.BackupMode = m
    /\ IF DumpCommand(pipeCfg, "directory").err # ""
         THEN PipeReturn("", 0, "building dump command")
         ELSE /\ ppc' = "runDump"
              /\ UNCHANGED <<ret, tempDir>>
    /\ UNCHANGED <<waited, sizeQuery, callVars, retVars, schedVars, pipeCfg, pctx, proc, left, pw, pr, remoteOps, atCancel>>

\* dumpCmd.Run(): the start.
RunDumpStart(m) ==
    /\ ppc = "runDump" /\ pipeCfg.BackupMode = m
    /\ \E ok \in StartResults(DumpCommand(pipeCfg, "directory").bound) :
        IF ok
          THEN /\ proc' = Started("dump", DumpCommand(pipeCfg, "directory").bound)
               /\ ppc' = "waitDump"
               /\ UNCHANGED <<ret, tempDir>>
          ELSE /\ PipeReturn("", 0, "dump failed")
               /\ UNCHANGED proc
    /\ UNCHANGED <<waited, sizeQuery, callVars, retVars, schedVars, pipeCfg, pctx, left, pw, pr, remoteOps, atCancel>>

\* Mutant: the dump's exit status is not looked at.
RunDumpWait_IgnoreError(m) ==
    /\ ppc = "waitDump" /\ pipeCfg.BackupMode = m
    /\ WaitReturns("dump")
    /\ waited' = waited \cup {"dump"}
    /\ ppc' = IF m = "directory" THEN "copy" ELSE "pipe"
    /\ UNCHANGED <<ret, tempDir>>
    /\ UNCHANGED <<sizeQuery, callVars, retVars, schedVars, pipeCfg, pctx, proc, left, pw, pr, remoteOps, atCancel>>

\* dumpCmd.Run(): the wait.
RunDumpWait(m) ==
    /\ ppc = "waitDump" /\ pipeCfg.BackupMode = m
    /\ WaitReturns("dump")
    /\ waited' = waited \cup {"dump"}
    /\ IF WaitErr("dump")
         THEN PipeReturn("", 0, "dump failed")
         ELSE /\ ppc' = IF m = "directory" THEN "copy" ELSE "pipe"
              /\ UNCHANGED <<ret, tempDir>>
    /\ UNCHANGED <<sizeQuery, callVars, retVars, schedVars, pipeCfg, pctx, proc, left, pw, pr, remoteOps, atCancel>>

\* rcloneCmd.Run() of rclone copy: the start.
DirCopyStart ==
    /\ ppc = "copy" /\ pipeCfg.BackupMode = "directory"
    /\ \E ok \in StartResults(TRUE) :
        IF ok
          THEN /\ proc' = Started("rclone", TRUE)
               /\ remoteOps' = Append(remoteOps, "copy")
               /\ ppc' = "waitCopy"
               /\ UNCHANGED <<ret, tempDir>>
          ELSE /\ PipeReturn("", 0, "rclone copy failed")
               /\ UNCHANGED <<proc, remoteOps>>
    /\ UNCHANGED <<waited, sizeQuery, callVars, retVars, schedVars, pipeCfg, pctx, left, pw, pr, atCancel>>

\* rcloneCmd.Run() of rclone copy: the wait; size 0 on success.
DirCopyWait ==
    /\ ppc = "waitCopy" /\ pipeCfg.BackupMode = "directory"
    /\ WaitReturns("rclone")
    /\ waited' = waited \cup {"rclone"}
    /\ IF WaitErr("rclone")
         THEN PipeReturn("", 0, "rclone copy failed")
         ELSE PipeReturn("remote/dir/", 0, "nil")
    /\ UNCHANGED <<sizeQuery, callVars, retVars, schedVars, pipeCfg, pctx, proc, left, pw, pr, remoteOps, atCancel>>

\* The tar and rclone commands and the pipe between them.
TarPipe ==
    /\ ppc = "pipe" /\ pipeCfg.BackupMode = "tar"
    /\ pw' = "open" /\ pr' = "open"
    /\ ppc' = "startRclone"
    /\ UNCHANGED <<waited, sizeQuery, callVars, retVars, schedVars, pipeCfg, pctx, proc, left, tempDir, remoteOps, atCancel, ret>>

TarStartRclone ==
    /\ ppc = "startRclone" /\ pipeCfg.BackupMode = "tar"
    /\ \E ok \in StartResults(TRUE) :
        IF ok
          THEN /\ proc' = Started("rclone", TRUE)
               /\ remoteOps' = Append(remoteOps, "rcat")
               /\ ppc' = "startTar"
               /\ UNCHANGED <<ret, tempDir>>
          ELSE /\ PipeReturn("", 0, "starting rclone")
               /\ UNCHANGED <<proc, remoteOps>>
    /\ UNCHANGED <<waited, sizeQuery, callVars, retVars, schedVars, pipeCfg, pctx, left, pw, pr, atCancel>>

TarStartTar ==
    /\ ppc = "startTar" /\ pipeCfg.BackupMode = "tar"
    /\ \E ok \in StartResults(TRUE) :
        IF ok
          THEN /\ proc' = Started("tar", TRUE)
               /\ ppc' = "waitTar"
               /\ UNCHANGED pw
          ELSE /\ pw' = "closed"
               /\ ppc' = "waitRcloneAfterStartFailure"
               /\ UNCHANGED proc
    /\ UNCHANGED <<waited, sizeQuery, callVars, retVars, schedVars, pipeCfg, pctx, left, pr, tempDir, remoteOps, atCancel, ret>>

TarStartTarFailed ==
    /\ ppc = "waitRcloneAfterStartFailure" /\ pipeCfg.BackupMode = "tar"
    /\ WaitReturns("rclone")
    /\ waited' = waited \cup {"rclone"}
    /\ PipeReturn("", 0, "starting tar")
    /\ UNCHANGED <<sizeQuery, callVars, retVars, schedVars, pipeCfg, pctx, proc, left, pw, pr, remoteOps, atCancel>>

TarWaitTar ==
    /\ ppc = "waitTar" /\ pipeCfg.BackupMode = "tar"
    /\ WaitReturns("tar")
    /\ waited' = waited \cup {"tar"}
    /\ pw' = "closed"
    /\ ppc' = "waitRclone"
    /\ UNCHANGED <<sizeQuery, callVars, retVars, schedVars, pipeCfg, pctx, proc, left, pr, tempDir, remoteOps,
                   atCancel, ret>>

TarWaitRclone ==
    /\ ppc = "waitRclone" /\ pipeCfg.BackupMode = "tar"
    /\ WaitReturns("rclone")
    /\ waited' = waited \cup {"rclone"}
    /\ pr' = "closed"
    /\ IF WaitErr("tar") THEN PipeReturn("", 0, "tar failed")
       ELSE IF WaitErr("rclone") THEN PipeReturn("", 0, "rclone rcat failed")
       ELSE /\ ppc' = "size"
            /\ UNCHANGED <<ret, tempDir>>
    /\ UNCHANGED <<sizeQuery, callVars, retVars, schedVars, pipeCfg, pctx, proc, left, pw, remoteOps, atCancel>>

TarSize ==
    /\ ppc = "size" /\ pipeCfg.BackupMode = "tar"
    /\ remoteOps' = IF pctx THEN remoteOps ELSE Append(remoteOps, "size")
    /\ \E q \in SizeQueries :
          /\ sizeQuery' = q
          /\ PipeReturn("remote/file.tar", getRemoteFileSize(q.failed, q.out), "nil")
    /\ UNCHANGED <<waited, callVars, retVars, schedVars, pipeCfg, pctx, proc, left, pw, pr, atCancel>>

PipeNext ==
    \/ Cancel
    \/ ProducerWrite
    \/ ProducerBlock
    \/ \E n \in ProcNames, how \in {"ok", "err"} : ProcExit(n, how)
    \/ StreamBuild
    \/ StreamStartRclone
    \/ StreamStartDump
    \/ StreamStartDumpFailed
    \/ StreamWaitDump
    \/ StreamWaitRclone
    \/ StreamSize
    \/ \E m \in TempModes : MkTemp(m)
    \/ \E m \in TempModes : BuildDump(m)
    \/ \E m \in TempModes : RunDumpStart(m)
    \/ \E m \in TempModes : RunDumpWait(m)
    \/ DirCopyStart
    \/ DirCopyWait
    \/ TarPipe
    \/ TarStartRclone
    \/ TarStartTar
    \/ TarStartTarFailed
    \/ TarWaitTar
    \/ TarWaitRclone
    \/ TarSize

\* The steps of Execute itself, and the steps of the processes it started.
ExecuteStep ==
    \/ StreamBuild
    \/ StreamStartRclone
    \/ StreamStartDump
    \/ StreamStartDumpFailed
    \/ StreamWaitDump
    \/ StreamWaitRclone
    \/ StreamSize
    \/ \E m \in TempModes : MkTemp(m)
    \/ \E m \in TempModes : BuildDump(m)
    \/ \E m \in TempModes : RunDumpStart(m)
    \/ \E m \in TempModes : RunDumpWait(m)
    \/ DirCopyStart
    \/ DirCopyWait
    \/ TarPipe
    \/ TarStartRclone
    \/ TarStartTar
    \/ TarStartTarFailed
    \/ TarWaitTar
    \/ TarWaitRclone
    \/ TarSize

ProcStep ==
    \/ ProducerWrite
    \/ ProducerBlock
    \/ \E n \in ProcNames, how \in {"ok", "err"} : ProcExit(n, how)

\* PipeFairSpec: the goroutine in Execute keeps being scheduled, and a
\* process that can write or exit does so in the end; the context may or
\* may not be cancelled.
PipeFairSpec == PipeInit /\ [][PipeNext]_vars /\ WF_vars(ExecuteStep) /\ WF_vars(ProcStep)

PipeSpec == PipeInit /\ [][PipeNext]_vars

(***************************************************************************)
(* RunOnce over the stream pipeline: one run whose pipe.Execute call is    *)
(* StreamPipeline.Execute, step by step                                    *)
(***************************************************************************)
StreamConfig == {c \in PipeConfig : c.BackupMode = "stream"}

\* Once mode, a post-hook and a webhook configured, no retention limit.
RunPipeInit ==
    /\ cfg \in {c \in Config : ~c.DryRun /\ c.ScheduleOnce /\ c.BackupLock /\ ~c.BackupOnStart
                                /\ c.HookPostBackup # "" /\ c.NotifyWebhookURL # ""
                                /\ ~c.Retention}
    /\ pc = [p \in Procs |-> IF p = MainProc THEN "boot" ELSE "idle"]
    /\ running = FALSE
    /\ cronState = "none"
    /\ fired = 0
    /\ tracker = NoTracker
    /\ status = [p \in Procs |-> "success"]
    /\ backupErr = [p \in Procs |-> NilErr]
    /\ remotePath = [p \in Procs |-> ""]
    /\ fileSize = [p \in Procs |-> 0]
    /\ ctxDone = [p \in Procs |-> FALSE]
    /\ calls = [p \in Procs |-> <<>>]
    /\ inFlight = [p \in Procs |-> FALSE]
    /\ exitCode = -1
    /\ stopResult = "none"
    /\ muWriter = NoHolder
    /\ muReaders = {}
    /\ clock = 0
    /\ updates = <<>>
    /\ rpc = "idle"
    /\ seen = NotSeen
    /\ RetIdle
    /\ CallIdle
    /\ pipeCfg \in StreamConfig
    /\ ppc = "idle"
    /\ pctx = FALSE
    /\ proc = [n \in ProcNames |-> NoProc]
    /\ left = MaxChunks
    /\ pw = "none"
    /\ pr = "none"
    /\ tempDir = "none"
    /\ remoteOps = <<>>
    /\ atCancel = {}
    /\ ret = [path |-> "", size |-> 0, err |-> ""]
    /\ sizeQuery = NoQuery
    /\ waited = {}

\* RunOnce calls pipe.Execute(ctx, eng, cfg) with the run's context.
ExecuteCall(p) ==
    /\ pc[p] = "execute"
    /\ ppc = "idle"
    /\ ppc' = "start"
    /\ pctx' = ctxDone[p]
    /\ UNCHANGED <<waited, sizeQuery, callVars, retVars, schedVars, pipeCfg, proc, left, pw, pr,
                   tempDir, remoteOps, atCancel, ret>>

\* Mutant: the remote path is kept when Execute returns an error.
ExecuteReturn_KeepsPath(p) ==
    /\ pc[p] = "execute"
    /\ ppc = "done"
    /\ calls' = LogCall(p, Call("Execute", ret.err # "nil", "", ret.path, TRUE))
    /\ remotePath' = [remotePath EXCEPT ![p] = "remote/file"]
    /\ fileSize' = [fileSize EXCEPT ![p] = ret.size]
    /\ IF ret.err # "nil"
         THEN /\ backupErr' = [backupErr EXCEPT ![p] = PipelineErr]
              /\ status' = [status EXCEPT ![p] = "failure"]
              /\ pc' = [pc EXCEPT ![p] = "posthook"]
         ELSE /\ backupErr' = [backupErr EXCEPT ![p] = NilErr]
              /\ UNCHANGED status
              /\ pc' = [pc EXCEPT ![p] = "retention"]
    /\ UNCHANGED <<restVars, cfg, running, cronState, fired, tracker, ctxDone, inFlight,
                   exitCode>>

\* Execute has returned: remotePath, fileSize, backupErr are assigned what
\* it returned; an error marks the run failed.
ExecuteReturn(p) ==
    /\ pc[p] = "execute"
    /\ ppc = "done"
    /\ calls' = LogCall(p, Call("Execute", ret.err # "nil", "", ret.path, TRUE))
    /\ remotePath' = [remotePath EXCEPT ![p] = ret.path]
    /\ fileSize' = [fileSize EXCEPT ![p] = ret.size]
    /\ IF ret.err # "nil"
         THEN /\ backupErr' = [backupErr EXCEPT ![p] = PipelineErr]
              /\ status' = [status EXCEPT ![p] = "failure"]
              /\ pc' = [pc EXCEPT ![p] = "posthook"]
         ELSE /\ backupErr' = [backupErr EXCEPT ![p] = NilErr]
              /\ UNCHANGED status
              /\ pc' = [pc EXCEPT ![p] = "retention"]
    /\ UNCHANGED <<restVars, cfg, running, cronState, fired, tracker, ctxDone, inFlight,
                   exitCode>>

\* The timer of the run's context expires while Execute is running: the
\* processes started with exec.CommandContext are killed.
TimeoutInExecute(p) ==
    /\ pc[p] = "execute"
    /\ ppc \notin {"idle", "done"}
    /\ cfg.BackupTimeout > 0
    /\ ~ctxDone[p]
    /\ ctxDone' = [ctxDone EXCEPT ![p] = TRUE]
    /\ pctx' = TRUE
    /\ atCancel' = {n \in ProcNames : proc[n].st = "running"}
    /\ proc' = [n \in ProcNames |->
                   IF proc[n].st = "running" /\ proc[n].bound
                     THEN [proc[n] EXCEPT !.st = "killed"]
                     ELSE proc[n]]
    /\ UNCHANGED <<waited, sizeQuery, callVars, retVars, pipeCfg, ppc, left, pw, pr, tempDir,
                   remoteOps, ret>>
    /\ UNCHANGED <<cfg, pc, running, cronState, fired, tracker, locals, calls, inFlight,
                   exitCode, stopResult, trackVars, readerVars>>

\* The timer expires while the run is outside Execute.
TimeoutOutside(p) ==
    /\ ppc \in {"idle", "done"}
    /\ Timeout(p)

RunPipeNext ==
    \/ MainOnce
    \/ ProducerWrite
    \/ ProducerBlock
    \/ \E n \in ProcNames, how \in {"ok", "err"} : ProcExit(n, how)
    \/ StreamBuild
    \/ StreamStartRclone
    \/ StreamStartDump
    \/ StreamStartDumpFailed
    \/ StreamWaitDump
    \/ StreamWaitRclone
    \/ StreamSize
    \/ \E p \in Procs :
        \/ TimeoutOutside(p)
        \/ TimeoutInExecute(p)
        \/ PreHook(p)
        \/ ExecuteCall(p)
        \/ ExecuteReturn(p)
        \/ Retention(p)
        \/ PostHook(p)
        \/ Health(p)
        \/ Notify(p)
        \/ Return(p)

RunPipeSpec == RunPipeInit /\ [][RunPipeNext]_vars

(***************************************************************************)
(* internal/retention                                                      *)
(***************************************************************************)
\* Remote paths; two entries of a listing may have the same one.
Paths == {"a", "b"}

\* Days are counted from the oldest modification time there is; time.Now()
\* is day MaxAge.
NowDay == MaxAge
ModTimes == 0..MaxAge

\* RemoteEntry.  id is the entry's place in the listing as it was given and
\* stands for the rest of the entry (Name, Size): it tells entries apart.
RemoteEntry(id, path, modTime, isDir) ==
    [id |-> id, Path |-> path, ModTime |-> modTime, IsDir |-> isDir]

\* The listings of a given length, files only or files and directories.
Listings(n, dirFlags) ==
    {[i \in 1..n |-> RemoteEntry(i, f[i][1], f[i][2], f[i][3])] :
        f \in [1..n -> Paths \X ModTimes \X dirFlags]}

ListingsUpTo(n, dirFlags) == UNION {Listings(k, dirFlags) : k \in 0..n}

\* One pass of the insertion sort sort.Slice runs on a short slice: e moves
\* left past the entries it is After, and stops at the first entry it is
\* not After (so entries of equal time keep their order).
InsertNewestFirst(sorted, e) ==
    LET stay == {i \in 1..Len(sorted) :
                    \A j \in i..Len(sorted) : e.ModTime > sorted[j].ModTime}
        k == Len(sorted) - Cardinality(stay)
    IN  SubSeq(sorted, 1, k) \o <<e>> \o SubSeq(sorted, k + 1, Len(sorted))

RECURSIVE SortNewestFirst(_)
\* sort.Slice(entries, ModTime After), for slices under 12 entries.
SortNewestFirst(entries) ==
    IF entries = <<>> THEN <<>>
    ELSE InsertNewestFirst(SortNewestFirst(SubSeq(entries, 1, Len(entries) - 1)),
                           entries[Len(entries)])

\* Mutant: the age rule is applied only to the entries the count rule kept.
selectDeletions_AgeOnKept(entries, maxFiles, maxDays) ==
    LET sorted == SortNewestFirst(entries)
        byCount == IF maxFiles > 0 /\ Len(sorted) > maxFiles
                     THEN {sorted[i].Path : i \in (maxFiles + 1)..Len(sorted)}
                     ELSE {}
        cutoff == NowDay - maxDays
        byAge == IF maxDays > 0 /\ byCount = {}
                   THEN {sorted[i].Path : i \in {j \in 1..Len(sorted) : sorted[j].ModTime < cutoff}}
                   ELSE {}
    IN  SelectSeq(sorted, LAMBDA e : e.Path \in byCount \cup byAge)

\* Mutant: no "maxDays > 0" test before the age rule.
selectDeletions_AgeAlways(entries, maxFiles, maxDays) ==
    LET sorted == SortNewestFirst(entries)
        byCount == IF maxFiles > 0 /\ Len(sorted) > maxFiles
                     THEN {sorted[i].Path : i \in (maxFiles + 1)..Len(sorted)}
                     ELSE {}
        cutoff == NowDay - maxDays
        byAge == {sorted[i].Path : i \in {j \in 1..Len(sorted) : sorted[j].ModTime < cutoff}}
    IN  SelectSeq(sorted, LAMBDA e : e.Path \in byCount \cup byAge)

\* selectDeletions: sort newest first; mark the paths of the entries beyond
\* the maxFiles newest and of the entries older than the cutoff in
\* deleteSet; return the entries whose path is marked, in sorted order.
selectDeletions(entries, maxFiles, maxDays) ==
    LET sorted == SortNewestFirst(entries)
        byCount == IF maxFiles > 0 /\ Len(sorted) > maxFiles
                     THEN {sorted[i].Path : i \in (maxFiles + 1)..Len(sorted)}
                     ELSE {}
        cutoff == NowDay - maxDays
        byAge == IF maxDays > 0
                   THEN {sorted[i].Path : i \in {j \in 1..Len(sorted) : sorted[j].ModTime < cutoff}}
                   ELSE {}
    IN  SelectSeq(sorted, LAMBDA e : e.Path \in byCount \cup byAge)

\* SelSpec: one call of selectDeletions on a listing of files.
SelInit ==
    /\ PipeIdle
    /\ CallIdle
    /\ cfg \in {c \in Config : DefaultHousekeeping(c) /\ ~c.DryRun /\ c.ScheduleOnce
                                /\ c.BackupLock /\ ~c.BackupOnStart /\ c.BackupTimeout = 0}
    /\ pc = [p \in Procs |-> "idle"]
    /\ running = FALSE
    /\ cronState = "none"
    /\ fired = 0
    /\ tracker = NoTracker
    /\ status = [p \in Procs |-> "success"]
    /\ backupErr = [p \in Procs |-> NilErr]
    /\ remotePath = [p \in Procs |-> ""]
    /\ fileSize = [p \in Procs |-> 0]
    /\ ctxDone = [p \in Procs |-> FALSE]
    /\ calls = [p \in Procs |-> <<>>]
    /\ inFlight = [p \in Procs |-> FALSE]
    /\ exitCode = -1
    /\ stopResult = "none"
    /\ muWriter = NoHolder
    /\ muReaders = {}
    /\ clock = 0
    /\ updates = <<>>
    /\ rpc = "idle"
    /\ seen = NotSeen
    /\ selListing \in ListingsUpTo(MaxEntries, {FALSE})
    /\ selEntries = selListing
    /\ selMaxFiles \in 0..MaxEntries
    /\ selMaxDays \in 0..MaxAge
    /\ selResult = <<>>
    /\ selPc = "call"
    /\ runIdx = 0
    /\ runDeleted = 0
    /\ runOps = <<>>
    /\ runLists = <<>>
    /\ runRet = [deleted |-> 0, err |-> ""]

\* The call: the caller's slice is left sorted, the selection is returned.
SelectDeletions ==
    /\ selPc = "call"
    /\ selEntries' = SortNewestFirst(selEntries)
    /\ selResult' = selectDeletions(selEntries, selMaxFiles, selMaxDays)
    /\ selPc' = "done"
    /\ UNCHANGED <<callVars, schedVars, pipeVars, runLists, selListing, selMaxFiles, selMaxDays, runIdx,
                   runDeleted, runOps, runRet>>

SelNext == SelectDeletions

SelSpec == SelInit /\ [][SelNext]_vars

\* RetSpec: one call of retention.Run against a remote holding selListing
\* (files and directories); the limits are any integers the environment
\* gives, negative ones included.
RetInit ==
    /\ PipeIdle
    /\ CallIdle
    /\ cfg \in {c \in Config : DefaultHousekeeping(c) /\ ~c.DryRun /\ c.ScheduleOnce
                                /\ c.BackupLock /\ ~c.BackupOnStart /\ c.BackupTimeout = 0}
    /\ pc = [p \in Procs |-> "idle"]
    /\ running = FALSE
    /\ cronState = "none"
    /\ fired = 0
    /\ tracker = NoTracker
    /\ status = [p \in Procs |-> "success"]
    /\ backupErr = [p \in Procs |-> NilErr]
    /\ remotePath = [p \in Procs |-> ""]
    /\ fileSize = [p \in Procs |-> 0]
    /\ ctxDone = [p \in Procs |-> FALSE]
    /\ calls = [p \in Procs |-> <<>>]
    /\ inFlight = [p \in Procs |-> FALSE]
    /\ exitCode = -1
    /\ stopResult = "none"
    /\ muWriter = NoHolder
    /\ muReaders = {}
    /\ clock = 0
    /\ updates = <<>>
    /\ rpc = "idle"
    /\ seen = NotSeen
    /\ selListing \in ListingsUpTo(MaxRemote, BOOLEAN)
    /\ selEntries = <<>>
    /\ selMaxFiles \in -1..MaxRemote
    /\ selMaxDays \in -1..MaxAge
    /\ selResult = <<>>
    /\ selPc = "run"
    /\ runIdx = 0
    /\ runDeleted = 0
    /\ runOps = <<>>
    /\ runLists = <<>>
    /\ runRet = [deleted |-> 0, err |-> ""]

\* Run returns (n, err).
RunReturns(n, err) ==
    /\ runRet' = [deleted |-> n, err |-> err]
    /\ selPc' = "returned"

\* Mutant: the remote is listed whatever the limits are.
RunCheck_AlwaysList ==
    /\ selPc = "run"
    /\ selPc' = "list" /\ UNCHANGED runRet
    /\ UNCHANGED <<callVars, schedVars, pipeVars, runLists, selListing, selEntries, selMaxFiles, selMaxDays,
                   selResult, runIdx, runDeleted, runOps>>

\* Run: no constraint configured, nothing to do.
RunCheck ==
    /\ selPc = "run"
    /\ IF selMaxFiles <= 0 /\ selMaxDays <= 0
         THEN RunReturns(0, "nil")
         ELSE selPc' = "list" /\ UNCHANGED runRet
    /\ UNCHANGED <<callVars, schedVars, pipeVars, runLists, selListing, selEntries, selMaxFiles, selMaxDays,
                   selResult, runIdx, runDeleted, runOps>>

\* Run: listRemote (rclone lsjson), which can fail.
RunList ==
    /\ selPc = "list"
    /\ \E ok \in BOOLEAN :
        /\ runLists' = Append(runLists, ok)
        /\ IF ok
             THEN /\ selEntries' = selListing
                  /\ selPc' = "select"
                  /\ UNCHANGED runRet
             ELSE /\ RunReturns(0, "listing remote for retention")
                  /\ UNCHANGED selEntries
    /\ UNCHANGED <<callVars, schedVars, pipeVars, selListing, selMaxFiles, selMaxDays, selResult,
                   runIdx, runDeleted, runOps>>

\* Run: nothing listed, or selectDeletions and nothing selected, or on to
\* the deletions with deleted := 0.
RunSelect ==
    /\ selPc = "select"
    /\ IF Len(selEntries) = 0
         THEN /\ RunReturns(0, "nil")
              /\ UNCHANGED <<selEntries, selResult, runIdx>>
         ELSE /\ selEntries' = SortNewestFirst(selEntries)
              /\ selResult' = selectDeletions(selEntries, selMaxFiles, selMaxDays)
              /\ IF Len(selResult') = 0
                   THEN RunReturns(0, "nil") /\ UNCHANGED runIdx
                   ELSE selPc' = "delete" /\ runIdx' = 1 /\ UNCHANGED runRet
    /\ UNCHANGED <<callVars, schedVars, pipeVars, runLists, selListing, selMaxFiles, selMaxDays, runDeleted,
                   runOps>>

\* deleteEntry: rclone purge for a directory, rclone deletefile otherwise.
deleteEntry(entry, ok) ==
    [op |-> IF entry.IsDir THEN "purge" ELSE "deletefile",
     id |-> entry.id, path |-> entry.Path, ok |-> ok]

\* Mutant: the first failed delete ends the loop with the error.
RunDelete_AbortOnError ==
    /\ selPc = "delete"
    /\ runIdx <= Len(selResult)
    /\ \E ok \in BOOLEAN :
        /\ runOps' = Append(runOps, deleteEntry(selResult[runIdx], ok))
        /\ runDeleted' = IF ok THEN runDeleted + 1 ELSE runDeleted
        /\ IF ok THEN UNCHANGED <<selPc, runRet>>
                 ELSE RunReturns(0, "deleting entry")
    /\ runIdx' = runIdx + 1
    /\ UNCHANGED <<callVars, schedVars, pipeVars, runLists, selListing, selEntries, selMaxFiles, selMaxDays,
                   selResult>>

\* Run, one turn of the loop over toDelete: a failed delete is logged and
\* the loop continues; a successful one is counted.
RunDelete ==
    /\ selPc = "delete"
    /\ runIdx <= Len(selResult)
    /\ \E ok \in BOOLEAN :
        /\ runOps' = Append(runOps, deleteEntry(selResult[runIdx], ok))
        /\ runDeleted' = IF ok THEN runDeleted + 1 ELSE runDeleted
    /\ runIdx' = runIdx + 1
    /\ UNCHANGED <<callVars, schedVars, pipeVars, runLists, selListing, selEntries, selMaxFiles, selMaxDays,
                   selResult, selPc, runRet>>

\* Run, after the loop: return deleted, nil.
RunReturn ==
    /\ selPc = "delete"
    /\ runIdx > Len(selResult)
    /\ RunReturns(runDeleted, "nil")
    /\ UNCHANGED <<callVars, schedVars, pipeVars, runLists, selListing, selEntries, selMaxFiles, selMaxDays,
                   selResult, runIdx, runDeleted, runOps>>

RetNext ==
    \/ RunCheck
    \/ RunList
    \/ RunSelect
    \/ RunDelete
    \/ RunReturn

RetSpec == RetInit /\ [][RetNext]_vars

(***************************************************************************)
(* Reading the call history of a run                                       *)
(***************************************************************************)
CallsOf(p, fn) == {i \in DOMAIN calls[p] : calls[p][i].fn = fn}
Called(p, fn) == CallsOf(p, fn) # {}
Failed(p, fn) == \E i \in CallsOf(p, fn) : calls[p][i].err

\* The goroutines that went through runWithLock into RunOnce.
Invoked == {p \in CronProcs : pc[p] \notin {"idle", "skipped"}}

(***************************************************************************)
(* Scheduler overlap guard                                                 *)
(***************************************************************************)
\* C1: with BackupLock, at most one RunOnce started through runWithLock is
\* executing at any time, whatever the interleaving of trigger firings.
C1_AtMostOneLockedRun ==
    cfg.BackupLock => Cardinality({p \in CronProcs : InRunOnce(p)}) <= 1

\* C1 witness: a locked run is executing and a second firing has happened.
C1_Witness ==
    /\ cfg.BackupLock
    /\ \E p, q \in CronProcs : InRunOnce(p) /\ pc[q] = "skipped"

\* C2: with BackupLock, a firing that happens while a run is in flight never
\* is in, or past, RunOnce (it was skipped, and stays skipped); so when every
\* other firing happened during the run of r, r's is the only invocation.
C2_SkippedNeverRuns ==
    cfg.BackupLock =>
        /\ \A p \in CronProcs : inFlight[p] => pc[p] = "skipped"
        /\ \A r \in Invoked :
              (\A p \in CronProcs \ {r} : pc[p] # "idle" => inFlight[p])
                  => Invoked = {r}

\* C2 witness: a firing occurred during a run, that run has ended since, and
\* the firing is still skipped.
C2_Witness ==
    /\ cfg.BackupLock
    /\ \E r, p \in CronProcs :
          pc[r] = "exited" /\ inFlight[p] /\ pc[p] = "skipped" /\ Invoked = {r}

\* C3 (as claimed): with BackupLock no two backup runs of the process are in
\* RunOnce at the same time, the BACKUP_ON_START run included.
C3_NoOverlapAnyPair ==
    cfg.BackupLock => Cardinality({p \in Procs : InRunOnce(p)}) <= 1

(***************************************************************************)
(* RunOnce: one orchestrated run                                           *)
(***************************************************************************)
PreHookFailed(p) == Failed(p, "RunPreBackup")
ExecuteFailed(p) == Failed(p, "Execute")

\* The outcome the pre-hook and the pipeline decide.
DecidedStatus(p) == IF PreHookFailed(p) \/ ExecuteFailed(p) THEN "failure" ELSE "success"
DecidedError(p) ==
    IF PreHookFailed(p) THEN PreHookErr
    ELSE IF ExecuteFailed(p) THEN PipelineErr
    ELSE NilErr

\* The remote path Execute returned in this run ("" when it was not called).
ExecutePath(p) ==
    IF Called(p, "Execute")
      THEN calls[p][CHOOSE i \in CallsOf(p, "Execute") : TRUE].path
      ELSE ""

\* C4: once the pre-backup hook has failed, the run never calls Execute nor
\* retention, its status is failure and the error it returns is the wrapped
\* hook error.
C4_PreHookFailureSkipsPipeline ==
    \A p \in Procs :
        PreHookFailed(p) =>
            /\ ~Called(p, "Execute")
            /\ ~Called(p, "retention.Run")
            /\ status[p] = "failure"
            /\ RunOnceResult(p) = PreHookErr

\* C4 witness: a run whose pre-hook failed is about to return.
C4_Witness ==
    \E p \in Procs : pc[p] = "return" /\ PreHookFailed(p)

\* C5: RunOnce returns a non-nil error exactly when the pre-hook or Execute
\* failed (and then that error), whatever retention, the post-hook, the
\* health update and the notification did.
C5_ErrorIffPreHookOrPipeline ==
    \A p \in Procs :
        pc[p] = "return" =>
            /\ (RunOnceResult(p) # NilErr) <=> (PreHookFailed(p) \/ ExecuteFailed(p))
            /\ RunOnceResult(p) = DecidedError(p)

\* C5 witness: retention, the post-hook and the notification all failed in a
\* run that returns nil.
C5_Witness ==
    \E p \in Procs :
        /\ pc[p] = "return"
        /\ Failed(p, "retention.Run") /\ Failed(p, "RunPostBackup") /\ Failed(p, "Send")
        /\ Called(p, "Update")
        /\ RunOnceResult(p) = NilErr

\* C6: the status in the Result given to Send is "failure" exactly when
\* backupErr is non-nil and "success" otherwise, and the post-hook and the
\* health sink were given that same status.
C6_StatusIffBackupErr ==
    \A p \in Procs :
        \A i \in CallsOf(p, "Send") :
            /\ calls[p][i].status = (IF backupErr[p] # NilErr THEN "failure" ELSE "success")
            /\ \A j \in CallsOf(p, "RunPostBackup") \cup CallsOf(p, "Update") :
                  calls[p][j].status = calls[p][i].status

\* C6 witness: a failed run with a health sink has sent its notification.
C6_Witness ==
    \E p \in Procs :
        /\ Called(p, "Send") /\ Called(p, "Update") /\ Called(p, "RunPostBackup")
        /\ backupErr[p] # NilErr

\* C7: from the post-hook step on, every run has called RunPostBackup exactly
\* once, with the decided status and the remote path Execute returned; and
\* when the post-hook failed, the status, the health update, the Result and
\* the returned error are the decided ones all the same.
C7_PostHookAlways ==
    \A p \in Procs :
        pc[p] \in {"health", "update1", "update2", "notify", "return"} =>
            /\ Cardinality(CallsOf(p, "RunPostBackup")) = 1
            /\ \A i \in CallsOf(p, "RunPostBackup") :
                  /\ calls[p][i].status = DecidedStatus(p)
                  /\ calls[p][i].path = ExecutePath(p)
            /\ Failed(p, "RunPostBackup") =>
                  /\ status[p] = DecidedStatus(p)
                  /\ RunOnceResult(p) = DecidedError(p)
                  /\ \A j \in CallsOf(p, "Update") \cup CallsOf(p, "Send") :
                        calls[p][j].status = DecidedStatus(p)
                  /\ pc[p] = "return" =>
                        /\ Called(p, "Send")
                        /\ HasTracker(p) => Called(p, "Update")

\* C7 witness: the post-hook command ran and failed after a pipeline failure,
\* and the run went on to its return.
C7_Witness ==
    \E p \in Procs :
        /\ pc[p] = "return"
        /\ ExecuteFailed(p)
        /\ \E i \in CallsOf(p, "RunPostBackup") : calls[p][i].err /\ calls[p][i].ran

\* Position of the call of fn in the history of p (0 when absent).
IndexOf(p, fn) == IF Called(p, fn) THEN CHOOSE i \in CallsOf(p, fn) : TRUE ELSE 0

\* C8: past the pipeline, retention was called exactly when Execute was
\* called and returned no error; it comes after Execute and before the
\* post-hook, and its error leaves status success and the error nil.
C8_RetentionIffPipelineSucceeded ==
    \A p \in Procs :
        /\ pc[p] \in {"posthook", "health", "update1", "update2", "notify", "return"} =>
              (Called(p, "retention.Run") <=> (Called(p, "Execute") /\ ~ExecuteFailed(p)))
        /\ Called(p, "retention.Run") =>
              /\ Cardinality(CallsOf(p, "retention.Run")) = 1
              /\ IndexOf(p, "Execute") > 0
              /\ IndexOf(p, "Execute") < IndexOf(p, "retention.Run")
              /\ Called(p, "RunPostBackup") =>
                    IndexOf(p, "retention.Run") < IndexOf(p, "RunPostBackup")
        /\ Failed(p, "retention.Run") =>
              /\ status[p] = "success"
              /\ RunOnceResult(p) = NilErr

\* C8 witness: retention failed and the run, still a success, is returning.
C8_Witness ==
    \E p \in Procs :
        pc[p] = "return" /\ Failed(p, "retention.Run") /\ status[p] = "success"

\* The state of the run's state machine each collaborator call stands for.
StepOf(fn) ==
    CASE fn = "RunPreBackup" -> "PreHook"
      [] fn = "Execute" -> "PipelineExecute"
      [] fn = "retention.Run" -> "Retention"
      [] fn = "RunPostBackup" -> "PostHook"
      [] fn = "Update" -> "Health"
      [] fn = "Send" -> "Notify"

IsStateMachineStep(st) == st # "Health"

\* The states a run has gone through so far, the health update left out.
Steps(p) ==
    <<"Start">> \o SelectSeq([i \in DOMAIN calls[p] |-> StepOf(calls[p][i].fn)],
                             IsStateMachineStep)

SuccessPath == <<"Start", "PreHook", "PipelineExecute", "Retention", "PostHook", "Notify">>
FailurePath == <<"Start", "PreHook", "PipelineExecute", "PostHook", "Notify">>
PreHookFailurePath == <<"Start", "PreHook", "PostHook", "Notify">>

IsPrefix(s, t) == Len(s) <= Len(t) /\ SubSeq(t, 1, Len(s)) = s

\* Any step of RunOnce by p.
RunStep(p) ==
    \/ PreHook(p) \/ Execute(p) \/ Retention(p) \/ PostHook(p)
    \/ Health(p) \/ UpdateLastBackup(p) \/ UpdateLastStatus(p)
    \/ Notify(p) \/ Return(p)

C10_CancelTerminatesProcesses ==
    pctx => \A n \in atCancel : proc[n].st # "running"

\* C11: in the directory and tar pipelines, whatever the return path of
\* Execute (temp-dir creation failure, dump-command construction error, dump
\* failure, tar or transfer start failure, transfer failure, success), no
\* temp directory created by the call exists once the call has returned.
C11_TempDirNeverSurvives ==
    (ppc = "done" /\ pipeCfg.BackupMode \in TempModes) => tempDir # "exists"

\* C11 witness: a tar pipeline that created its temp directory and returned
\* an error after the transfer had been started.
C11_Witness ==
    /\ ppc = "done" /\ pipeCfg.BackupMode = "tar"
    /\ tempDir = "removed"
    /\ ret.err \in {"tar failed", "rclone rcat failed", "starting tar"}

\* Stop has been called (it is waiting, or it has returned).
StopCalled == pc[MainProc] \in {"stopwait", "stopped"}

\* C12: once Stop(timeout) has been called on a started Scheduler no trigger
\* firing starts a job any more; Stop returns only when no cron-triggered
\* run is in flight or when the timeout has elapsed; no step of Stop changes
\* an in-flight run, its context or the guard; and after a timed-out Stop
\* the in-flight run still has its next step to take (or, waiting for the
\* tracker's mutex, the run holding it has).
C12_StopIsGraceful ==
    /\ [][ /\ StopCalled =>
                \A p \in CronProcs : pc[p] = "idle" => pc'[p] = "idle"
           /\ (pc[MainProc] = "stopwait" /\ pc'[MainProc] = "stopped") =>
                \/ stopResult' = "timeout"
                \/ \A p \in CronProcs : ~JobRunning(p)
           /\ (pc[MainProc] # pc'[MainProc] /\ StopCalled') =>
                /\ \A p \in Procs \ {MainProc} : pc'[p] = pc[p]
                /\ UNCHANGED <<ctxDone, running, locals>> ]_vars
    /\ [](\A p \in CronProcs :
             (pc[MainProc] = "stopped" /\ stopResult = "timeout" /\ InRunOnce(p))
                => \/ ENABLED RunStep(p)
                   \/ /\ pc[p] = "health"
                      /\ muWriter \in Procs
                      /\ ENABLED RunStep(muWriter))

\* C12 witness: Stop has timed out while a cron-triggered run was in flight,
\* that run has since moved on to its notification, and a further trigger
\* firing was still available.
C12_Witness ==
    /\ pc[MainProc] = "stopped" /\ stopResult = "timeout"
    /\ fired < MaxFirings
    /\ \E p \in CronProcs : pc[p] = "notify" /\ Called(p, "RunPostBackup")

\* The (time, status) pairs Update calls have written, the fresh Tracker's included.
WrittenPairs ==
    {<<0, "pending">>} \cup {<<updates[i].time, updates[i].status>> : i \in DOMAIN updates}

\* The pair the last Update call to execute wrote.
LastWritten ==
    IF updates = <<>> THEN <<0, "pending">>
    ELSE <<updates[Len(updates)].time, updates[Len(updates)].status>>

\* C13: a run given a health sink calls Update exactly once, after the
\* post-hook and before the notification, with the run's final status; a run
\* without a sink makes no update.  Whenever no Update call is executing,
\* the tracker's (last-backup time, last status) is the pair written by the
\* last Update call to execute, and every pair GetStatus returns is a pair one
\* single Update call wrote (or the fresh tracker's).
C13_HealthUpdate ==
    /\ \A p \in Procs :
        /\ pc[p] \in {"prehook", "execute", "retention", "posthook", "health"} =>
              ~Called(p, "Update")
        /\ pc[p] \in {"notify", "return"} =>
              /\ Cardinality(CallsOf(p, "Update")) = (IF HasTracker(p) THEN 1 ELSE 0)
              /\ \A i \in CallsOf(p, "Update") :
                    /\ calls[p][i].status = status[p]
                    /\ calls[p][i].status = DecidedStatus(p)
                    /\ \A j \in CallsOf(p, "RunPostBackup") : j < i
                    /\ \A j \in CallsOf(p, "Send") : i < j
        /\ ~HasTracker(p) => pc[p] \notin {"update1", "update2"}
    /\ ~tracker.present => updates = <<>>
    /\ (\A p \in Procs : pc[p] \notin {"update1", "update2"}) =>
          <<tracker.lastBackup, tracker.lastStatus>> = LastWritten
    /\ (rpc = "idle" /\ seen # NotSeen) =>
          <<seen.lastBackup, seen.lastStatus>> \in WrittenPairs

\* C13 witness: two runs executing at the same time have both updated the
\* tracker, with different statuses, and GetStatus has since returned the
\* pair of the second update.
C13_Witness ==
    /\ Len(updates) = 2
    /\ updates[1].status # updates[2].status
    /\ rpc = "idle"
    /\ <<seen.lastBackup, seen.lastStatus>> = <<updates[2].time, updates[2].status>>
    /\ \E p \in Procs, q \in Procs :
          /\ p # q
          /\ pc[p] = "return" /\ Called(p, "Update")
          /\ pc[q] = "return" /\ Called(q, "Update")

(***************************************************************************)
(* Retention: what selectDeletions returns                                 *)
(***************************************************************************)
\* The entries of a slice, as a set.
EntrySet(entries) == {entries[i] : i \in DOMAIN entries}

\* The orders a listing can be given in.
Orderings(entries) ==
    {[i \in DOMAIN entries |-> entries[f[i]]] :
        f \in {g \in [DOMAIN entries -> DOMAIN entries] :
                  \A i, j \in DOMAIN entries : i # j => g[i] # g[j]}}

\* The selectDeletions call has returned.
Selected == selPc = "done"

\* C14: retention union: what selectDeletions(L, maxCount, maxAge) returns is,
\* as a set of entries, the union of selectDeletions(L, maxCount, 0) and
\* selectDeletions(L, 0, maxAge), each rule working on the whole listing L.
C14_RetentionUnion ==
    Selected =>
        EntrySet(selResult) =
            EntrySet(selectDeletions(selListing, selMaxFiles, 0))
              \cup EntrySet(selectDeletions(selListing, 0, selMaxDays))

\* C14 witness: both rules are active, each selects something, and the age
\* rule selects an entry the count rule does not.
C14_Witness ==
    /\ Selected
    /\ selMaxFiles > 0 /\ selMaxDays > 0
    /\ LET byCount == EntrySet(selectDeletions(selListing, selMaxFiles, 0))
           byAge == EntrySet(selectDeletions(selListing, 0, selMaxDays))
       IN  byCount # {} /\ byAge \ byCount # {}

\* C15: retention order-independence: for every listing, ties of
\* modification time included, selectDeletions returns the same set of
\* entries whatever the order the listing is given in, and returns it again
\* when run again on the slice it left behind.
C15_OrderIndependent ==
    Selected =>
        /\ \A perm \in Orderings(selListing) :
              EntrySet(selectDeletions(perm, selMaxFiles, selMaxDays)) = EntrySet(selResult)
        /\ EntrySet(selectDeletions(selEntries, selMaxFiles, selMaxDays)) = EntrySet(selResult)

\* The place of an entry in the sorted slice.
RankOf(e) == CHOOSE i \in DOMAIN selEntries : selEntries[i] = e

\* C16: every entry selectDeletions returns is itself beyond the maxCount
\* newest entries or older than the max-age cutoff, listings with a repeated
\* Path included, and is returned exactly once.
C16_OnlyConstrainedEntries ==
    Selected =>
        /\ \A i \in DOMAIN selResult :
              \/ selMaxFiles > 0 /\ RankOf(selResult[i]) > selMaxFiles
              \/ selMaxDays > 0 /\ selResult[i].ModTime < NowDay - selMaxDays
        /\ \A i, j \in DOMAIN selResult : i # j => selResult[i] # selResult[j]

\* C17: zero-constraint no-op: selectDeletions(L, 0, 0) returns nothing for
\* every listing L, and selectDeletions on the empty listing returns nothing
\* for every pair of constraints.
C17_ZeroConstraintNoOp ==
    Selected =>
        /\ (selMaxFiles = 0 /\ selMaxDays = 0) => selResult = <<>>
        /\ selListing = <<>> => selResult = <<>>

\* C17 witness: a full listing with entries of every age, both constraints
\* zero, and the call has returned.
C17_Witness ==
    /\ Selected
    /\ selMaxFiles = 0 /\ selMaxDays = 0
    /\ Len(selListing) = MaxEntries
    /\ \E i \in DOMAIN selListing : selListing[i].ModTime < NowDay

\* The listing's modification times are pairwise distinct.
DistinctModTimes ==
    \A i, j \in DOMAIN selListing : i # j => selListing[i].ModTime # selListing[j].ModTime

\* C18: count-only rule: on a listing of n entries with pairwise distinct
\* modification times, with maxAge disabled and maxCount = N > 0,
\* selectDeletions returns exactly the n - N oldest entries when n > N (the
\* entries with at least N newer ones) and nothing when n <= N.
C18_CountOnly ==
    (Selected /\ DistinctModTimes /\ selMaxDays = 0 /\ selMaxFiles > 0) =>
        EntrySet(selResult) =
            {e \in EntrySet(selListing) :
                Cardinality({f \in EntrySet(selListing) : f.ModTime > e.ModTime})
                    >= selMaxFiles}

\* C19: age-only rule: with maxCount disabled and maxAgeDays = D > 0,
\* selectDeletions returns exactly the entries whose modification time is
\* strictly before now minus D days.
C19_AgeOnly ==
    (Selected /\ selMaxFiles = 0 /\ selMaxDays > 0) =>
        EntrySet(selResult) =
            {e \in EntrySet(selListing) : e.ModTime < NowDay - selMaxDays}

\* C20: Run attempts a delete for every selected entry, in order, with the
\* recursive purge for a directory and the single-object delete otherwise; a
\* failed delete does not stop the attempts on the remaining entries, Run
\* returns no error from the deletions, and the count it returns is the
\* number of deletes that succeeded.
C20_RunDeletesEverySelected ==
    /\ selPc = "delete" =>
          /\ Len(runOps) = runIdx - 1
          /\ runRet.err = ""
    /\ selPc \in {"delete", "returned"} =>
          \A i \in DOMAIN runOps :
              /\ i <= Len(selResult)
              /\ runOps[i].id = selResult[i].id
              /\ runOps[i].path = selResult[i].Path
              /\ runOps[i].op = (IF selResult[i].IsDir THEN "purge" ELSE "deletefile")
    /\ (selPc = "returned" /\ Len(selResult) > 0) =>
          /\ Len(runOps) = Len(selResult)
          /\ runRet.err = "nil"
          /\ runRet.deleted = Cardinality({i \in DOMAIN runOps : runOps[i].ok})

\* C20 witness: Run has returned after two deletes, a failed one followed by
\* a successful one, a directory and a file.
C20_Witness ==
    /\ selPc = "returned"
    /\ Len(runOps) = 2
    /\ ~runOps[1].ok /\ runOps[2].ok
    /\ {runOps[1].op, runOps[2].op} = {"purge", "deletefile"}
    /\ runRet.deleted = 1

(***************************************************************************)
(* Once mode and dry run (main.go run)                                     *)
(***************************************************************************)
\* The process runs in once mode: BACKUP_SCHEDULE=once and no dry run.
OnceMode == cfg.ScheduleOnce /\ ~cfg.DryRun

\* C21: in once mode the main goroutine enters RunOnce from its start only
\* and never returns to its start (one invocation), no Tracker is created
\* or updated, no /health handler reads, no scheduler is started and no
\* other goroutine runs; the process exits only out of RunOnce's return,
\* with status 1 when RunOnce returned an error and 0 otherwise.  In dry
\* run no goroutine is ever inside RunOnce, whatever the schedule, and the
\* process exits 0.
C21_OnceMode ==
    /\ [](OnceMode =>
             /\ cronState = "none"
             /\ tracker = NoTracker /\ updates = <<>> /\ rpc = "idle"
             /\ \A p \in Procs \ {MainProc} : pc[p] = "idle"
             /\ ~Called(MainProc, "Update")
             /\ pc[MainProc] = "exit" => exitCode \in {0, 1})
    /\ [](cfg.DryRun =>
             /\ \A p \in Procs : ~InRunOnce(p) /\ calls[p] = <<>>
             /\ pc[MainProc] \in {"boot", "exit"}
             /\ pc[MainProc] = "exit" => exitCode = 0)
    /\ [][OnceMode =>
             /\ pc'[MainProc] = "boot" => pc[MainProc] = "boot"
             /\ (~InRunOnce(MainProc) /\ InRunOnce(MainProc)') => pc[MainProc] = "boot"
             /\ (pc[MainProc] # "exit" /\ pc'[MainProc] = "exit") =>
                   /\ pc[MainProc] = "return"
                   /\ exitCode' = IF RunOnceResult(MainProc) # NilErr THEN 1 ELSE 0]_vars

\* C21 witness: the once-mode process has exited with status 1 after its
\* only RunOnce returned an error.
C21_Witness ==
    /\ OnceMode
    /\ pc[MainProc] = "exit" /\ exitCode = 1

(***************************************************************************)
(* Notification (notify.Send)                                              *)
(***************************************************************************)
\* The policy admits the status: always admits both, success admits
\* success, failure and every other value admit failure.
Admits(notifyOn, st) ==
    IF notifyOn = "always" THEN TRUE
    ELSE IF notifyOn = "success" THEN st = "success"
    ELSE st = "failure"

\* C22: a call of Send that has returned went on to the delivery exactly
\* when the URL was non-empty and the policy admitted the status, for valid,
\* empty and unknown policy values, and posted only on that path; in
\* RunOnce the Send call reached its request exactly under the same
\* condition on the settings, and the step of Send, failed delivery
\* included, changes neither the status nor the error RunOnce returns.
C22_SendPolicy ==
    /\ [](/\ sendPc = "returned" =>
                (sendOut.attempted <=>
                    sendIn.url # "" /\ Admits(sendIn.notifyOn, sendIn.status))
          /\ sendOut.posted => sendOut.attempted
          /\ sendOut.delivered => sendOut.posted
          /\ \A p \in Procs : \A i \in CallsOf(p, "Send") :
                /\ calls[p][i].ran <=>
                      cfg.NotifyWebhookURL # "" /\ Admits(cfg.NotifyOn, calls[p][i].status)
                /\ calls[p][i].err => calls[p][i].ran
                /\ calls[p][i].status = status[p])
    /\ [][\A p \in Procs :
             (pc[p] = "notify" /\ pc'[p] # "notify") =>
                /\ pc'[p] = "return"
                /\ status'[p] = status[p]
                /\ RunOnceResult(p)' = RunOnceResult(p)]_vars

\* C22 witness: a direct call with an unknown policy and status failure has
\* posted and not delivered, and the process's successful run is about to
\* return nil after its own delivery failed.
C22_Witness ==
    /\ sendPc = "returned" /\ sendIn.notifyOn = "never" /\ sendIn.status = "failure"
    /\ sendOut.posted /\ ~sendOut.delivered
    /\ pc[MainProc] = "return" /\ Failed(MainProc, "Send")
    /\ status[MainProc] = "success" /\ RunOnceResult(MainProc) = NilErr

(***************************************************************************)
(* Engine command construction (Engine.DumpCommand)                        *)
(***************************************************************************)
\* DumpCommand returned an error and no command.
DumpFailed == engOut.err # "" /\ engOut.cmd = NoCmd

\* The engine cannot honor the mode of the call: Redis and the Postgres
\* full-instance dump outside stream, every engine outside stream and
\* directory.
ModeNotHonored ==
    \/ engCfg.Engine = "redis" /\ engMode # "stream"
    \/ engCfg.Engine = "pg" /\ engCfg.BackupAllDatabases /\ engMode # "stream"
    \/ engMode \notin {"stream", "directory"}

\* C23: a DumpCommand call whose mode the engine cannot honor returns the
\* unsupported-mode error and no command; in particular the call the
\* directory and tar pipelines make (mode directory) fails for Redis.
C23_UnsupportedMode ==
    (engPc = "returned" /\ ModeNotHonored) =>
        /\ engOut.err = "unsupported mode"
        /\ DumpFailed

\* C23 witness: Redis was asked for directory mode and returned the error.
C23_Witness ==
    /\ engPc = "returned" /\ engCfg.Engine = "redis" /\ engMode = "directory"
    /\ engOut.err = "unsupported mode"

\* The call is a Postgres single-database dump.
PostgresSingle == engCfg.Engine = "pg" /\ ~engCfg.BackupAllDatabases

\* C24: a Postgres single-database call with a URI that names no database
\* returns an error and no command, the missing-database error in the modes
\* Postgres supports; a stream-mode call that built its command asks
\* pg_dump for the custom format when compression is on and for the plain
\* format when it is off.
C24_PostgresCommand ==
    (engPc = "returned" /\ PostgresSingle) =>
        /\ (engCfg.DBURI # "" /\ dbNameFromURI(engCfg.DBURI) = "") =>
              /\ DumpFailed
              /\ engMode \in {"stream", "directory"} => engOut.err = "no database name"
        /\ (engMode = "stream" /\ engOut.err = "") =>
              /\ engOut.cmd.tool = "pg_dump"
              /\ engOut.cmd.format = IF engCfg.BackupCompress THEN "custom" ELSE "plain"

\* C24 witness: Postgres, stream mode, a URI without a database name, no
\* full-instance dump: the call returned the missing-database error.
C24_Witness ==
    /\ engPc = "returned" /\ PostgresSingle
    /\ engMode = "stream" /\ engCfg.DBURI = "scheme://host"
    /\ engOut.err = "no database name"

\* The settings of the call with other discrete fields.
WithFields(h, n) == [engCfg EXCEPT !.DBHost = h, !.DBName = n]

\* C25 (as claimed): with a URI set, what DumpCommand returns does not
\* depend on the discrete host and name fields; with no URI and no discrete
\* field set, DumpCommand returns an error and no command, for every engine.
C25_ConnectionResolution ==
    engPc = "returned" =>
        /\ engCfg.DBURI # "" =>
              \A h \in {"", "h"}, n \in {"", "n"} :
                  DumpCommand(WithFields(h, n), engMode) = engOut
        /\ (engCfg.DBURI = "" /\ engCfg.DBHost = "" /\ engCfg.DBName = "") => DumpFailed

\* The connection source of the call names no database: a URI without one,
\* or no URI and no DB_NAME.
NoResolvableName ==
    IF engCfg.DBURI # "" THEN dbNameFromURI(engCfg.DBURI) = "" ELSE engCfg.DBName = ""

Upload == IF pipeCfg.BackupMode = "directory" THEN "copy" ELSE "rcat"

\* Execute returned an error of the transfer tool.
TransferFailed ==
    /\ ppc = "done"
    /\ ret.err \in {"starting rclone", "rclone rcat failed", "rclone copy failed"}

\* C27: the remote operations of one Execute call are at most the one upload
\* and then the size query, the size query only in stream and tar mode after
\* an upload that succeeded; a call that returned a transfer-tool error made
\* at most the upload and nothing after it (no delete); and no process that
\* has been started is started again.
C27_NoCleanupNoRetry ==
    /\ [](/\ remoteOps \in {<<>>, <<Upload>>, <<Upload, "size">>}
          /\ Len(remoteOps) = 2 =>
                /\ pipeCfg.BackupMode \in {"stream", "tar"}
                /\ proc["rclone"].st = "ok" /\ proc[Producer].st = "ok"
                /\ ret.err = "nil"
          /\ TransferFailed => remoteOps \in {<<>>, <<Upload>>})
    /\ [][\A n \in ProcNames :
            /\ proc[n].st # "none" => proc'[n].st # "none"
            /\ Exited(n) => proc'[n].st = proc[n].st]_vars

\* C27 witness: the stream pipeline's dump succeeded, rclone rcat failed,
\* and Execute has returned having made the upload only.
C27_Witness ==
    /\ TransferFailed /\ pipeCfg.BackupMode = "stream"
    /\ ret.err = "rclone rcat failed"
    /\ proc["dump"].st = "ok" /\ proc["rclone"].st = "err"
    /\ remoteOps = <<"rcat">>

\* The remote paths Execute returns that end in a slash.
EndsInSlash(path) == path = "remote/dir/"

\* C28: in the directory pipeline rclone copy is started only once the dump
\* command has exited with success; a call that returned without error
\* returned the remote directory path, which ends in a slash, and size 0,
\* after both commands succeeded; a call that returned an error returned the
\* empty path and size 0.
C28_DirectoryResult ==
    pipeCfg.BackupMode = "directory" =>
        /\ (proc["rclone"].st # "none" \/ remoteOps # <<>>) => proc["dump"].st = "ok"
        /\ ppc = "done" =>
              /\ ret.err # ""
              /\ ret.size = 0
              /\ IF ret.err = "nil"
                   THEN /\ ret.path = "remote/dir/" /\ EndsInSlash(ret.path)
                        /\ proc["dump"].st = "ok" /\ proc["rclone"].st = "ok"
                   ELSE ret.path = ""

\* C28 witness: the directory pipeline has returned its path after a dump
\* and a copy that both succeeded.
C28_Witness ==
    /\ pipeCfg.BackupMode = "directory" /\ ppc = "done"
    /\ ret = [path |-> "remote/dir/", size |-> 0, err |-> "nil"]
    /\ remoteOps = <<"copy">>

\* The output of the size query has no integer that can be parsed after
\* "bytes":.
Unparseable(out) == BytesField(out) = "none" \/ ParseInt(BytesField(out)).err

\* C29 (as claimed): a stream or tar call whose transfer succeeded returns no
\* error and a size of 0 or more, whatever the size query did; the size is 0
\* when the query failed or its output could not be parsed.
C29_SizeNonNegative ==
    ( /\ ppc = "done" /\ pipeCfg.BackupMode \in {"stream", "tar"}
      /\ proc["rclone"].st = "ok" /\ proc[Producer].st = "ok" ) =>
        /\ ret.err = "nil" /\ sizeQuery.made
        /\ ret.size >= 0
        /\ (sizeQuery.failed \/ Unparseable(sizeQuery.out)) => ret.size = 0

\* Execute is in a piped pipeline (stream, tar), and is at the wait on the
\* producer (dumpCmd.Wait in stream, tarCmd.Wait in tar).
Piped == pipeCfg.BackupMode \in {"stream", "tar"}
AtProducerWait == ppc = (IF pipeCfg.BackupMode = "stream" THEN "waitDump" ELSE "waitTar")
BothStarted == proc["rclone"].st # "none" /\ proc[Producer].st # "none"

\* C30: in the stream and tar pipelines the producer is never started
\* before rclone; once both are started Execute waits on the producer with
\* the write end open, closes the write end in the step in which that wait
\* returns and nowhere else, then waits on rclone with the write end
\* closed, and after rclone's wait only the size query and the return
\* follow.
C30_StartAndWaitOrder ==
    /\ [](Piped =>
             /\ proc[Producer].st # "none" => proc["rclone"].st # "none"
             /\ AtProducerWait => BothStarted /\ pw = "open"
             /\ (ppc = "waitRclone") => BothStarted /\ pw = "closed" /\ Exited(Producer)
             /\ (BothStarted /\ pw = "open") => AtProducerWait)
    /\ [][(Piped /\ BothStarted) =>
             /\ (pw = "open" /\ pw' = "closed") =>
                   AtProducerWait /\ WaitReturns(Producer) /\ ppc' = "waitRclone"
             /\ (ppc # "waitRclone" /\ ppc' = "waitRclone") => AtProducerWait
             /\ (ppc = "waitRclone" /\ ppc' # "waitRclone") =>
                   WaitReturns("rclone") /\ ppc' \in {"size", "done"}]_vars

\* C30 witness: in the stream pipeline the dump's wait has returned, the
\* write end is closed and Execute is waiting on rclone, which still runs.
C30_Witness ==
    /\ pipeCfg.BackupMode = "stream" /\ ppc = "waitRclone"
    /\ pw = "closed" /\ Exited("dump") /\ proc["rclone"].st = "running"

(***************************************************************************)
(* C31                                                                     *)
(***************************************************************************)
\* The mode argument the pipeline of pipeCfg passes to DumpCommand.
PassedMode == IF pipeCfg.BackupMode = "stream" THEN "stream" ELSE "directory"

ConfigError == ppc # "idle" /\ DumpCommand(pipeCfg, PassedMode).err # ""

\* C31: when DumpCommand fails for the settings of the call (unsupported
\* mode, missing database name), Execute never gets past the step that
\* builds the dump command: no external process (dump, tar, rclone) is ever
\* started, no remote operation is made, and when Execute has returned it
\* has returned an error with an empty path and size 0, in the stream, the
\* directory and the tar pipeline.
C31_ConfigErrorBeforeAnyProcess ==
    ConfigError =>
        /\ \A n \in ProcNames : proc[n] = NoProc
        /\ remoteOps = <<>>
        /\ ppc \in {"start", "build", "done"}
        /\ ppc = "done" =>
              /\ ret.err \in {"building dump command", "creating temp dir"}
              /\ ret.path = "" /\ ret.size = 0

\* The tar pipeline has returned the error of DumpCommand, the staging
\* directory having been made.
C31_Witness ==
    /\ ConfigError
    /\ pipeCfg.BackupMode = "tar"
    /\ ppc = "done"
    /\ ret.err = "building dump command"
    /\ tempDir = "removed"

(***************************************************************************)
(* C32                                                                     *)
(***************************************************************************)
\* C32: a call of selectDeletions leaves the caller's listing as it was
\* given: the same entries in the same order.
C32_ListingUnchanged ==
    selPc = "done" => selEntries = selListing

(***************************************************************************)
(* C33                                                                     *)
(***************************************************************************)
NoLimits == selMaxFiles <= 0 /\ selMaxDays <= 0

ListFailed == \E i \in DOMAIN runLists : ~runLists[i]

\* C33: with both retention limits zero or negative Run never lists the
\* remote and never deletes, and returns (0, nil); when listRemote fails Run
\* has returned an error and deletes nothing; and in every case each delete
\* Run attempts is of an entry that selectDeletions returns for the listing
\* that was fetched, the remote being listed at most once.
C33_RunSkipsAndSelects ==
    /\ NoLimits =>
          /\ runLists = <<>> /\ runOps = <<>>
          /\ selPc \in {"run", "returned"}
          /\ selPc = "returned" => runRet = [deleted |-> 0, err |-> "nil"]
    /\ ListFailed =>
          /\ selPc = "returned"
          /\ runRet = [deleted |-> 0, err |-> "listing remote for retention"]
          /\ runOps = <<>>
    /\ Len(runLists) <= 1
    /\ runOps # <<>> => runLists = <<TRUE>>
    /\ \A i \in DOMAIN runOps :
          \E e \in EntrySet(selectDeletions(selListing, selMaxFiles, selMaxDays)) :
              /\ runOps[i].id = e.id
              /\ runOps[i].path = e.Path

\* Run has returned at once for a negative and a zero limit, against a
\* remote that holds entries.
C33_Witness ==
    /\ selPc = "returned"
    /\ selMaxFiles < 0 /\ selMaxDays = 0
    /\ Len(selListing) = MaxRemote
    /\ runLists = <<>>

(***************************************************************************)
(* C34                                                                     *)
(***************************************************************************)
\* rclone rcat has exited (failed, or killed at cancellation) while the
\* producer is running with output still to write into the pipe.
TransferExitedEarly ==
    /\ pipeCfg.BackupMode \in {"stream", "tar"}
    /\ pw = "open"
    /\ Exited("rclone")
    /\ proc[Producer].st = "running"
    /\ left > 0

ReturnedError == ppc = "done" /\ ret.err \notin {"", "nil"}

\* C34: in the stream and tar pipelines, once rclone rcat has exited before
\* reading all of the producer's output, Execute eventually returns, and
\* returns an error: the wait on the producer does not block forever.
C34_ExecuteReturns == TransferExitedEarly ~> ReturnedError

(***************************************************************************)
(* C35                                                                     *)
(***************************************************************************)
\* A cron-triggered run holds the guard: it is in RunOnce or at the
\* deferred Store(false).
HoldsGuard(p) == p \in CronProcs /\ (InRunOnce(p) \/ pc[p] = "unlock")

\* C35: with the lock enabled and a nonzero timeout, the guard is set
\* exactly while a cron-triggered run is executing, every such run
\* eventually ends, and the guard, once set, is eventually cleared.
C35_GuardReleased ==
    /\ [](running <=> \E p \in CronProcs : HoldsGuard(p))
    /\ \A p \in CronProcs : HoldsGuard(p) ~> (pc[p] = "exited")
    /\ running ~> ~running

(***************************************************************************)
(* C36                                                                     *)
(***************************************************************************)
\* The timeout of p's run has expired while the run is at the pipeline.
ExpiredInExecute(p) == pc[p] = "execute" /\ ctxDone[p]

\* p's run has made the call and reached its effect (the hook command ran,
\* the request was issued) with status failure.
RanOnFailure(p, fn) ==
    \E i \in CallsOf(p, fn) : calls[p][i].ran /\ calls[p][i].status = "failure"

\* C36: when the timeout of a run expires during the pipeline, the run goes
\* on to execute the configured post-backup hook command with status
\* failure, and to attempt the failure notification when a webhook is
\* configured and the policy admits a failure.
C36_HookAndNotifyAfterTimeout ==
    \A p \in CronProcs :
        /\ (ExpiredInExecute(p) /\ cfg.HookPostBackup # "")
              ~> RanOnFailure(p, "RunPostBackup")
        /\ (ExpiredInExecute(p) /\ cfg.NotifyWebhookURL # ""
               /\ shouldNotify(cfg.NotifyOn, "failure"))
              ~> RanOnFailure(p, "Send")

(***************************************************************************)
(* C37                                                                     *)
(***************************************************************************)
StartedProcs == {n \in ProcNames : proc[n].st # "none"}

PipeMade == pw # "none"

\* C37: when the stream or tar Execute has returned, every process it
\* started has been waited on and both ends of the pipe it made are closed;
\* after rclone failed to start the producer was never started; after the
\* producer failed to start the write end is closed and rclone was waited on.
C37_WaitedAndClosed ==
    (Piped /\ ppc = "done") =>
        /\ StartedProcs \subseteq waited
        /\ PipeMade => pw = "closed" /\ pr = "closed"
        /\ ret.err = "starting rclone" => proc[Producer] = NoProc
        /\ ret.err \in {"starting dump", "starting tar"} =>
              pw = "closed" /\ "rclone" \in waited

(***************************************************************************)
(* C38                                                                     *)
(***************************************************************************)
ExitedNonzero(n) == n \in waited /\ WaitErr(n)

\* The error Execute returned names the stage that failed.
NamesFailedStage ==
    /\ ret.err \in {"building dump command", "starting rclone", "starting dump",
                    "dump failed", "rclone rcat failed"}
    /\ ret.err = "building dump command" <=> DumpCommand(pipeCfg, "stream").err # ""
    /\ ret.err = "starting rclone" => StartedProcs = {}
    /\ ret.err = "starting dump" => StartedProcs = {"rclone"}
    /\ ret.err = "dump failed" <=> ExitedNonzero("dump")
    /\ ret.err = "rclone rcat failed" <=>
          (ExitedNonzero("rclone") /\ "dump" \in waited /\ ~WaitErr("dump"))

\* C38: when the stream Execute has returned after a stage failed, it
\* returned an empty path, size 0 and the error of the failed stage, the
\* dump's when both the dump and rclone exited nonzero; it returns no error
\* only when no stage failed; and every post-hook call and notification of
\* a failed run carries an empty remote path.
C38_FailureReturnsEmptyPath ==
    /\ (ppc = "done" /\ ret.err # "nil") =>
          /\ ret.path = "" /\ ret.size = 0
          /\ NamesFailedStage
    /\ (ppc = "done" /\ ret.err = "nil") =>
          /\ waited = {"dump", "rclone"}
          /\ ~WaitErr("dump") /\ ~WaitErr("rclone")
          /\ ret.path # ""
    /\ \A p \in Procs : \A i \in DOMAIN calls[p] :
          (calls[p][i].fn \in {"RunPostBackup", "Send"} /\ calls[p][i].status = "failure")
              => calls[p][i].path = ""

\* The dump and rclone both exited nonzero, Execute returned the dump's
\* failure, and the run has called its post-hook and sent its notification.
C38_Witness ==
    /\ ExitedNonzero("dump") /\ ExitedNonzero("rclone")
    /\ ret.err = "dump failed"
    /\ \E i \in CallsOf(MainProc, "RunPostBackup") :
          calls[MainProc][i].ran /\ calls[MainProc][i].status = "failure"
    /\ \E i \in CallsOf(MainProc, "Send") :
          calls[MainProc][i].ran /\ calls[MainProc][i].status = "failure"

(***************************************************************************)
(* C39                                                                     *)
(***************************************************************************)
Min(a, b) == IF a < b THEN a ELSE b

CountRuleOnly == selPc = "done" /\ selMaxDays <= 0 /\ selMaxFiles >= 1

\* C39: with the age rule disabled and maxFiles = N >= 1, selectDeletions
\* leaves at least min(N, |L|) entries of the listing L unselected, whatever
\* the modification times and paths of L: it never selects every entry of a
\* listing that has one, and never selects the entry it sorted first.
C39_CountRuleKeepsNewest ==
    CountRuleOnly =>
        /\ Len(selListing) - Len(selResult) >= Min(selMaxFiles, Len(selListing))
        /\ selListing # <<>> =>
              /\ Len(selResult) < Len(selListing)
              /\ selEntries[1] \notin EntrySet(selResult)

====
